---- MODULE Spec2Model ----
(***************************************************************************)
(* The callback-driven training loop of the fastai Learner as annotated in *)
(* the lesson 14/15/16 notebooks: Callback.__call__, Learner._call_one,    *)
(* Learner._with_events, and the nested fit/epoch/train/validate/batch/    *)
(* backward/step loop built from them.                                     *)
(***************************************************************************)
EXTENDS Integers, Sequences, FiniteSets, TLC

(* ------------------------------ bounds -------------------------------- *)
\* largest n_epoch passed to fit
MaxEpochs == 2
\* len(dls.train) and len(dls.valid)
NTrain == 2
NValid == 2
\* a scripted handler raises on its n-th matching invocation, n in 1..MaxNth
MaxNth == 1
\* fit() calls on one session in the refit specification
MaxFits == 2
\* length of the callback list in the registry specification
MaxCbs == 3
\* largest len(dls.train) and len(dls.valid) where the loaders vary
MaxTrain == 3
MaxValid == 2
\* most elements in the tuple a loader yields as one batch
MaxLen == 3

(* ------------------------------ events -------------------------------- *)
\* the phases bracketed by _with_events; each has its Cancel<X>Exception
Scopes == {"fit", "epoch", "train", "validate", "batch", "backward", "step"}

BeforeEv(x) == "before_" \o x
AfterEv(x) == "after_" \o x
AfterCancelEv(x) == "after_cancel_" \o x

\* the `event` class: every name a Learner may dispatch
Events ==
    {"after_create", "after_pred", "after_loss"}
        \cup {BeforeEv(x) : x \in Scopes}
        \cup {AfterEv(x) : x \in Scopes}
        \cup {AfterCancelEv(x) : x \in Scopes}

\* fastai.callback.core._inner_loop: the events gated on run_train/run_valid
\* (the complement of the events "always called by Learner")
_inner_loop ==
    {"before_batch", "after_pred", "after_loss", "before_backward",
     "after_cancel_backward", "after_backward", "before_step", "after_step",
     "after_cancel_batch", "after_batch"}

\* the calls of the loop body that reach the model, the loss and the optimizer
Ops == {"model", "loss_func", "backward", "opt_step", "zero_grad"}

NoExc == [kind |-> "none", cls |-> "none", ev |-> "none"]
\* what a handler or a body step raises: one of the seven Cancel*Exception
\* (kind = the scope name) or any other Exception (kind = "error")
ExcKinds == Scopes \cup {"error"}

\* a name that is not an attribute of `event`, and what _call_one raises
\* for such a name: raise Exception(f'missing {event_name}')
UnknownEvent == "not_an_event"
\* a _call_one that signals the unknown name with a CancelBatchException
MissingExcAsCancel(ev) == [kind |-> "batch", cls |-> "none", ev |-> ev]
MissingExc(ev) == [kind |-> "error", cls |-> "none", ev |-> ev]

(* ----------------------------- callbacks ------------------------------ *)
\* callback instances: TrainEvalCallback, Recorder, two instances of one
\* user callback class ("usr" carries the scripted raise, "off" is created
\* with run = False), a ProgressCallback that is never registered, a
\* callback whose order puts it in front of TrainEvalCallback, and two more
\* instances of the user callback class: "val" with run_train = False and
\* "mute" with run_train = False and run_valid = False
CbPool == {"tec", "rec", "usr", "off", "prog", "early", "val", "mute"}

ClassOf(c) ==
    CASE c = "tec" -> "TrainEvalCallback"
      [] c = "rec" -> "Recorder"
      [] c = "prog" -> "ProgressCallback"
      [] c = "early" -> "EarlyCallback"
      [] OTHER -> "UserCallback"

\* Callback.name: the snake-cased class name without "Callback", the
\* attribute of the Learner under which add_cb stores the instance
NameOf(c) ==
    CASE c = "tec" -> "train_eval"
      [] c = "rec" -> "recorder"
      [] c = "prog" -> "progress"
      [] c = "early" -> "early"
      [] OTHER -> "user"

Names == {NameOf(c) : c \in CbPool}

DefaultOrder == 0
TrainEvalOrder == -10
RecorderOrder == 50
ProgressOrder == 60
\* an order chosen by the user to run before TrainEvalCallback
EarlyOrder == TrainEvalOrder - 1

Order(c) ==
    CASE c = "tec" -> TrainEvalOrder
      [] c = "rec" -> RecorderOrder
      [] c = "prog" -> ProgressOrder
      [] c = "early" -> EarlyOrder
      [] OTHER -> DefaultOrder

RunTrain(c) == c \notin {"val", "mute"}
RunValid(c) == c \notin {"tec", "mute"}

VARIABLES
    cbs,        \* Learner.cbs: callback instances in registration order
    cblearn,    \* Callback.learn of every instance: "learner", "other"
                \* (a second Learner) or "none"
    other,      \* the second Learner: its cbs and its callback attributes
    shadow,     \* the `training` attribute set on the instance itself
    warned,     \* whether the last Callback.__setattr__ warned
    attrs,      \* the Learner attribute of each callback name, or "none"
    run,        \* Callback.run of every instance
    learn,      \* Learner fields the loop and the callbacks read and write
    recorder,   \* what Recorder.after_batch has accumulated
    dls,        \* the data: batches per loader, the tuple every batch is,
                \* and dls.n_inp (<<>>: the attribute is not there)
    plan,       \* the scripted raise: where, what, in which phase, which time
    hits,       \* matching invocations of the scripted point in this fit
    stack,      \* the open _with_events calls, outermost first
    trace,      \* events dispatched and body steps run in this fit() call
    status,     \* "new" (no Learner yet), "idle", "fitting", "returned",
                \* "raised"
    exc,        \* the exception that left fit(), or the last standalone dispatch
    fits,       \* fit() calls started on this session
    maxFits,    \* fit() calls this session will make
    mini,       \* a MiniAI learner running `with self.callback_ctx(nm)`:
                \* nm, the names dispatched and the body steps run, and how
                \* the with statement ended
    metric,     \* an AvgMetric or AvgLoss: total, count, and what has been
                \* accumulated since the last reset
    optim,      \* a fastai Optimizer: hypers, step callbacks, and the data,
                \* grad and state of every parameter
    sgdw,       \* a Composer DecoupledSGDW on one parameter
    adam,       \* one call of adam_step: the caller's tensor and the result
    mloop       \* a MiniAI learner running fit(): the open callback_ctx
                \* scopes, the pass it is in and the methods dispatched

vars == <<cbs, cblearn, other, shadow, warned, attrs, run, learn, recorder, dls, plan, hits, stack, trace, status,
          exc, fits, maxFits, mini, metric, optim, sgdw, adam, mloop>>

\* what the training loop never touches
aside == <<mini, metric, optim, sgdw, adam, mloop>>

(* ------------------------------ helpers ------------------------------- *)
Last(s) == s[Len(s)]
Range(s) == {s[k] : k \in 1..Len(s)}
Front(s) == SubSeq(s, 1, Len(s) - 1)

\* a sort that is not stable: c goes in front of the elements of its order
RECURSIVE InsertByOrderUnstable(_, _)
InsertByOrderUnstable(s, c) ==
    IF s = <<>> THEN <<c>>
    ELSE IF Order(Last(s)) < Order(c) THEN Append(s, c)
    ELSE Append(InsertByOrderUnstable(Front(s), c), Last(s))

\* L.sorted('order') is Python's sorted(): a stable sort. Insert c behind
\* every element whose order is not greater.
RECURSIVE InsertByOrder(_, _)
InsertByOrder(s, c) ==
    IF s = <<>> THEN <<c>>
    ELSE IF Order(Last(s)) <= Order(c) THEN Append(s, c)
    ELSE Append(InsertByOrder(Front(s), c), Last(s))

RECURSIVE SortedByOrder(_)
SortedByOrder(s) ==
    IF s = <<>> THEN <<>>
    ELSE InsertByOrder(SortedByOrder(Front(s)), Last(s))

\* Python's b[:i] and b[i:] on a tuple: i counts from the end when it is
\* negative and is clipped to 0..len(b)
SliceAt(b, i) ==
    IF i < 0 THEN (IF Len(b) + i < 0 THEN 0 ELSE Len(b) + i)
    ELSE IF i > Len(b) THEN Len(b) ELSE i
UpTo(b, i) == SubSeq(b, 1, SliceAt(b, i))
From(b, i) == SubSeq(b, SliceAt(b, i) + 1, Len(b))

\* a _split that always takes the last element as the targets
SplitAlwaysLast(b, n_inp) ==
    LET i == IF n_inp = <<>> THEN Len(b) - 1 ELSE n_inp[1]
    IN [xb |-> UpTo(b, i), yb |-> From(b, i)]

\* Learner._split(b), n_inp being <<>> or <<dls.n_inp>>:
\* i = getattr(self.dls, 'n_inp', 1 if len(b)==1 else len(b)-1);
\* self.xb, self.yb = b[:i], b[i:]
Split(b, n_inp) ==
    LET i == IF n_inp = <<>>
             THEN (IF Len(b) = 1 THEN 1 ELSE Len(b) - 1)
             ELSE n_inp[1]
    IN [xb |-> UpTo(b, i), yb |-> From(b, i)]

\* a batch of n tensors, and the data the loop runs over: T train and V
\* validate batches of n tensors each, dls.n_inp not set
Batch(n) == [k \in 1..n |-> k]
Data(T, V, n) ==
    [train |-> T, valid |-> V, batch |-> Batch(n), n_inp |-> <<>>]

\* getattr(self, 'training', default) through the callback's delegation
GetTraining(L, default) ==
    IF L.training = "unset" THEN default ELSE L.training = "yes"

(* ------------------------- callback handlers -------------------------- *)
PhaseOk(phase, L) ==
    \/ phase = "any"
    \/ phase = "train" /\ L.training = "yes"
    \/ phase = "valid" /\ L.training = "no"

\* does the scripted point p (a handler of "usr", or a body step) match now
Scripted(p, L) == plan.ev = p /\ PhaseOk(plan.phase, L)

\* the exception the scripted point raises on this invocation, h earlier
\* matching invocations having happened in this fit (kind "missing": the
\* handler dispatches UnknownEvent through self.learn); the user callback's
\* after_cancel handler for the kind it raised may raise in turn
ScriptedExc(p, L, h) ==
    IF Scripted(p, L) /\ (plan.nth = 0 \/ plan.nth = h + 1)
    THEN IF plan.kind = "missing" THEN MissingExc(UnknownEvent)
         ELSE [kind |-> plan.kind, cls |-> "none", ev |-> "none"]
    ELSE IF plan.onCancel # "none" /\ p = AfterCancelEv(plan.kind)
    THEN [kind |-> IF plan.onCancel = "same" THEN plan.kind ELSE "error",
          cls |-> "none", ev |-> "none"]
    ELSE NoExc

\* a TrainEvalCallback that never switches back to evaluation mode
TrainEvalHandlerNoEval(ev, L) ==
    CASE ev = "after_create" -> [L EXCEPT !.n_epoch = 1]
      [] ev = "before_fit" ->
            [L EXCEPT !.epoch = 0, !.loss = "zero", !.train_iter = 0]
      [] ev = "after_batch" -> [L EXCEPT !.train_iter = @ + 1]
      [] ev = "before_train" -> [L EXCEPT !.training = "yes"]
      [] OTHER -> L

\* a TrainEvalCallback that keeps train_iter from one fit to the next
TrainEvalHandlerNoReset(ev, L) ==
    CASE ev = "after_create" -> [L EXCEPT !.n_epoch = 1]
      [] ev = "before_fit" -> [L EXCEPT !.epoch = 0, !.loss = "zero"]
      [] ev = "after_batch" -> [L EXCEPT !.train_iter = @ + 1]
      [] ev = "before_train" -> [L EXCEPT !.training = "yes"]
      [] ev = "before_validate" -> [L EXCEPT !.training = "no"]
      [] OTHER -> L

\* TrainEvalCallback's handlers
TrainEvalHandler(ev, L) ==
    CASE ev = "after_create" -> [L EXCEPT !.n_epoch = 1]
      [] ev = "before_fit" ->
            [L EXCEPT !.epoch = 0, !.loss = "zero", !.train_iter = 0]
      [] ev = "after_batch" -> [L EXCEPT !.train_iter = @ + 1]
      [] ev = "before_train" -> [L EXCEPT !.training = "yes"]
      [] ev = "before_validate" -> [L EXCEPT !.training = "no"]
      [] OTHER -> L

\* a Recorder whose after_batch does not look at the targets
RecorderHandlerNoTargetCheck(ev, L, R) ==
    CASE ev = "before_fit" ->
            [lrs |-> 0, losses |-> 0, nTrain |-> 0, nValid |-> 0]
      [] ev = "after_batch" ->
            IF L.training = "yes"
            THEN [R EXCEPT !.nTrain = @ + 1, !.lrs = @ + 1,
                           !.losses = @ + 1]
            ELSE [R EXCEPT !.nValid = @ + 1]
      [] OTHER -> R

\* Recorder's handlers: before_fit empties lrs/losses, after_batch
\* accumulates the metrics of the running phase when the batch has targets
\* and, in training, appends one lr and one smoothed loss
RecorderHandler(ev, L, R) ==
    CASE ev = "before_fit" ->
            [lrs |-> 0, losses |-> 0, nTrain |-> 0, nValid |-> 0]
      [] ev = "after_batch" ->
            IF Len(L.yb) = 0 THEN R
            ELSE IF L.training = "yes"
                 THEN [R EXCEPT !.nTrain = @ + 1, !.lrs = @ + 1,
                                !.losses = @ + 1]
                 ELSE [R EXCEPT !.nValid = @ + 1]
      [] OTHER -> R

\* getcallable(self, event_name)(): the handler of instance c for ev, applied
\* to the accumulated state a; a.exc is what it raised
Handler(c, ev, a) ==
    CASE c = "tec" -> [a EXCEPT !.learn = TrainEvalHandler(ev, a.learn)]
      [] c = "rec" ->
            [a EXCEPT !.recorder = RecorderHandler(ev, a.learn, a.recorder)]
      [] c = "usr" ->
            [a EXCEPT !.exc = ScriptedExc(ev, a.learn, a.hits),
                      !.hits = IF Scripted(ev, a.learn) THEN @ + 1 ELSE @]
      [] OTHER -> a

\* re-raising every exception unchanged
WrapExcNoContext(c, ev, e) == e

\* except (Cancel...Exception): raise / except Exception as e: raise
\* modify_exception(e, "... in `<class>` when calling event `<event>`")
WrapExc(c, ev, e) ==
    IF e.kind = "error" THEN [kind |-> "error", cls |-> ClassOf(c), ev |-> ev]
    ELSE e

\* self.training read on callback c: its own attribute if it has one, else
\* (GetAttr) the attribute of self.learn, L being this Learner's fields
ReadTraining(c, L) ==
    IF shadow[c] # "unset" THEN shadow[c]
    ELSE IF cblearn[c] = "learner" THEN L.training
    ELSE "unset"

\* a _run flag that leaves run_valid out of the validation disjunct
RunGateIgnoresRunValid(c, ev, L) ==
    LET V == [training |-> ReadTraining(c, L)]
    IN \/ ev \notin _inner_loop
       \/ RunTrain(c) /\ GetTraining(V, TRUE)
       \/ ~GetTraining(V, FALSE)

\* a _run flag whose getattr defaults are the other way round
RunGateDefaultsSwapped(c, ev, L) ==
    LET V == [training |-> ReadTraining(c, L)]
    IN \/ ev \notin _inner_loop
       \/ RunTrain(c) /\ GetTraining(V, FALSE)
       \/ RunValid(c) /\ ~GetTraining(V, TRUE)

\* the _run flag of Callback.__call__
RunGate(c, ev, L) ==
    LET V == [training |-> ReadTraining(c, L)]
    IN \/ ev \notin _inner_loop
       \/ RunTrain(c) /\ GetTraining(V, TRUE)
       \/ RunValid(c) /\ ~GetTraining(V, FALSE)

\* a dispatcher that does not look at self.run
ShouldRunAlways(c, ev, a) == RunGate(c, ev, a.learn)

\* if self.run and _run
ShouldRun(c, ev, a) == a.run[c] /\ RunGate(c, ev, a.learn)

\* a __call__ that leaves self.run alone
CallbackCallNoReset(c, ev, a) ==
    LET a1 == [a EXCEPT !.asked = Append(@, c),
                        !.seen = Append(@, ReadTraining(c, a.learn))]
    IN IF ShouldRun(c, ev, a1)
       THEN LET h == Handler(c, ev, a1)
            IN [h EXCEPT !.called = Append(@, c),
                         !.exc = WrapExc(c, ev, h.exc)]
       ELSE a1

\* Callback.__call__(event_name) of instance c
CallbackCall(c, ev, a) ==
    LET a1 == [a EXCEPT !.asked = Append(@, c),
                        !.seen = Append(@, ReadTraining(c, a.learn))]
        b == IF ShouldRun(c, ev, a1)
             THEN LET h == Handler(c, ev, a1)
                  IN [h EXCEPT !.called = Append(@, c),
                               !.exc = WrapExc(c, ev, h.exc)]
             ELSE a1
    IN IF b.exc.kind # "none" THEN b
       ELSE IF ev = "after_fit" THEN [b EXCEPT !.run[c] = TRUE]
       ELSE b

\* for cb in self.cbs.sorted('order'): cb(event_name)
RECURSIVE CallAll(_, _, _)
CallAll(s, ev, a) ==
    IF s = <<>> \/ a.exc.kind # "none" THEN a
    ELSE CallAll(Tail(s), ev, CallbackCall(Head(s), ev, a))

\* Learner._call_one(event_name) with Learner fields L, h earlier scripted
\* invocations
CallOne(ev, L, h) ==
    CallAll(SortedByOrder(cbs), ev,
            [learn |-> L, recorder |-> recorder, run |-> run,
             hits |-> h, asked |-> <<>>, seen |-> <<>>, called |-> <<>>,
             exc |-> NoExc])

(* ---------------------------- _with_events ---------------------------- *)
\* One open _with_events(f, scope, Cancel<scope>Exception) call. pc "try":
\* inside the try block (the before dispatch or f); "cancel": about to
\* dispatch after_cancel; "after": about to dispatch after. i is the
\* position inside f.
Frame(x) == [scope |-> x, pc |-> "try", i |-> 0]

\* variants of the except clause: a bare except, and call sites that pass the
\* Cancel*Exception of another phase
CatchesAnything(scope, k) == TRUE
CatchesBatchAtPhase(scope, k) ==
    IF k = "batch" THEN scope \in {"train", "validate"} ELSE k = scope
CatchesEpochAtFit(scope, k) ==
    IF k = "epoch" THEN scope = "fit" ELSE k = scope
CatchesTrainAtEpoch(scope, k) ==
    IF k = "train" THEN scope = "epoch" ELSE k = scope
CatchesNoFit(scope, k) == k = scope /\ scope # "fit"
CatchesNoStep(scope, k) == k = scope /\ scope # "step"

CatchesOuterAtBatch(scope, k) ==
    IF k \in {"train", "validate", "epoch", "fit"} THEN scope = "batch"
    ELSE k = scope

\* except ex: the handler of the call for `scope` takes exception kind k
Catches(scope, k) == k = scope

\* The stack after exception e is raised with s open: the innermost call
\* that is inside its try block and whose `ex` matches takes it, every call
\* above it is left. <<>>: e leaves fit().
RECURSIVE Unwind(_, _)
Unwind(s, e) ==
    IF s = <<>> THEN <<>>
    ELSE IF Last(s).pc = "try" /\ Catches(Last(s).scope, e.kind)
         THEN [s EXCEPT ![Len(s)].pc = "cancel"]
         ELSE Unwind(Front(s), e)

\* one entry of the trace: the event or body step, the callbacks whose
\* __call__ ran, the value of self.training each of them read, those whose
\* handler ran, and the kind of exception raised
Entry(ev, asked, seen, called, k) ==
    [ev |-> ev, asked |-> asked, seen |-> seen, called |-> called, exc |-> k]

\* after a raise or a return: where control is now
Settle(s, e) ==
    /\ stack' = s
    /\ status' = IF s # <<>> THEN "fitting"
                 ELSE IF e.kind = "none" THEN "returned" ELSE "raised"
    /\ exc' = IF s = <<>> THEN e ELSE NoExc

\* self(ev) at a point of the loop, the Learner fields being L and the
\* trace tr: sRaise is the stack an exception unwinds from, sOk the stack
\* when every handler returns, more the trace entries of the statements that
\* follow the dispatch in the same function
Emit(ev, L, h, tr, sRaise, sOk, more) ==
    LET r == CallOne(ev, L, h)
    IN /\ learn' = r.learn
       /\ recorder' = r.recorder
       /\ run' = r.run
       /\ hits' = r.hits
       /\ IF r.exc.kind = "none"
          THEN /\ trace' = Append(tr, Entry(ev, r.asked, r.seen, r.called,
                                            "none")) \o more
               /\ Settle(sOk, NoExc)
          ELSE /\ trace' = Append(tr, Entry(ev, r.asked, r.seen, r.called,
                                            r.exc.kind))
               /\ Settle(Unwind(sRaise, r.exc), r.exc)
       /\ UNCHANGED <<aside, cbs, cblearn, other, shadow, warned, attrs, dls, plan,
                      maxFits>>

\* a call into the model, the loss or the optimizer: L is the Learner after
\* it returns
RunOp(op, L, sOk) ==
    LET e == ScriptedExc(op, learn, hits)
    IN /\ hits' = IF Scripted(op, learn) THEN hits + 1 ELSE hits
       /\ trace' = Append(trace, Entry(op, <<>>, <<>>, <<>>, e.kind))
       /\ IF e.kind = "none"
          THEN learn' = L /\ Settle(sOk, NoExc)
          ELSE learn' = learn /\ Settle(Unwind(stack, e), e)
       /\ UNCHANGED <<aside, cbs, cblearn, other, shadow, warned, attrs, run,
                      recorder, dls, plan, fits, maxFits>>

\* _with_events, first statement: self(f'before_{event_type}') inside try;
\* `below` are the calls already open, L the Learner fields at the call
EnterScope(x, L, below) ==
    Emit(BeforeEv(x), L, hits, trace,
         Append(below, Frame(x)), Append(below, Frame(x)), <<>>)

\* _with_events, last statements: self(f'after_{event_type}'); final()
\* (final is _end_cleanup for fit, noop elsewhere), then return
LeaveScope ==
    Emit(AfterEv(Last(stack).scope), learn, hits, trace,
         Front(stack), Front(stack),
         IF Last(stack).scope = "fit"
         THEN <<Entry("_end_cleanup", <<>>, <<>>, <<>>, "none")>> ELSE <<>>)

Top == Last(stack)
SetTop(f) == [stack EXCEPT ![Len(stack)] = f]
InBody(x) == stack # <<>> /\ Top.scope = x /\ Top.pc = "try"

\* an except clause that returns right after the after_cancel event
WithEventsCancelSkipsAfter ==
    /\ stack # <<>> /\ Top.pc = "cancel"
    /\ Emit(AfterCancelEv(Top.scope), learn, hits, trace, Front(stack),
            Front(stack), <<>>)
    /\ UNCHANGED fits

\* an except clause that dispatches no after_cancel event
WithEventsCancelQuiet ==
    /\ stack # <<>> /\ Top.pc = "cancel"
    /\ stack' = SetTop([Top EXCEPT !.pc = "after"])
    /\ UNCHANGED <<aside, cbs, cblearn, other, shadow, warned, attrs, run,
                   learn, recorder, dls, plan, hits, trace, status, exc,
                   fits, maxFits>>

\* except ex: self(f'after_cancel_{event_type}')
WithEventsCancel ==
    /\ stack # <<>> /\ Top.pc = "cancel"
    /\ Emit(AfterCancelEv(Top.scope), learn, hits, trace, Front(stack),
            SetTop([Top EXCEPT !.pc = "after"]), <<>>)
    /\ UNCHANGED fits

\* a _with_events that clears the gradients on its way out of a batch
WithEventsAfterZeroGrad ==
    /\ stack # <<>> /\ Top.pc = "after"
    /\ Emit(AfterEv(Top.scope),
            IF Top.scope = "batch" THEN [learn EXCEPT !.grads = FALSE]
            ELSE learn,
            hits, trace, Front(stack), Front(stack),
            IF Top.scope = "fit"
            THEN <<Entry("_end_cleanup", <<>>, <<>>, <<>>, "none")>>
            ELSE <<>>)
    /\ UNCHANGED fits

\* f() returned or the cancel handler is done: after event, final, return
WithEventsAfter ==
    /\ stack # <<>> /\ Top.pc = "after"
    /\ LeaveScope
    /\ UNCHANGED fits

(* ------------------------- the training loop -------------------------- *)
\* Learner.fit(n_epoch): create the optimizer if there is none, set
\* n_epoch, then _with_events(self._do_fit, 'fit', CancelFitException,
\* self._end_cleanup)
Fit(n) ==
    /\ status # "fitting"
    /\ fits < maxFits
    /\ fits' = fits + 1
    /\ Emit(BeforeEv("fit"), [learn EXCEPT !.n_epoch = n, !.opt = TRUE],
            0, <<>>, <<Frame("fit")>>, <<Frame("fit")>>, <<>>)

\* _do_fit: for epoch in range(self.n_epoch): self.epoch = epoch;
\* _with_events(self._do_epoch, 'epoch', CancelEpochException)
DoFit ==
    /\ InBody("fit")
    /\ IF Top.i < learn.n_epoch
       THEN EnterScope("epoch", [learn EXCEPT !.epoch = Top.i],
                       SetTop([Top EXCEPT !.i = @ + 1]))
       ELSE LeaveScope
    /\ UNCHANGED fits

\* _do_epoch: self._do_epoch_train(); self._do_epoch_validate()
\* _do_epoch_train: self.dl = self.dls.train; _with_events(all_batches,
\* 'train', CancelTrainException); _do_epoch_validate: self.dl = dl;
\* _with_events(all_batches, 'validate', CancelValidException)
DoEpoch ==
    /\ InBody("epoch")
    /\ CASE Top.i = 0 ->
              EnterScope("train", [learn EXCEPT !.dl = "train"],
                         SetTop([Top EXCEPT !.i = 1]))
         [] Top.i = 1 ->
              EnterScope("validate", [learn EXCEPT !.dl = "valid"],
                         SetTop([Top EXCEPT !.i = 2]))
         [] OTHER -> LeaveScope
    /\ UNCHANGED fits

\* a loop that never switches self.dl to the validation loader
LenDlTrainOnly(L) == dls.train

\* len(self.dl)
LenDl(L) == IF L.dl = "train" THEN dls.train ELSE dls.valid

\* for o in enumerate(self.dl): is there a batch at position i
MoreBatchesSkipLast(i, L) == i + 1 < LenDl(L)
MoreBatches(i, L) == i < LenDl(L)

\* an all_batches whose enumerate starts at one
AllBatchesFromOne ==
    /\ InBody("train") \/ InBody("validate")
    /\ IF MoreBatches(Top.i, learn)
       THEN EnterScope("batch",
                       [learn EXCEPT !.n_iter = LenDl(learn),
                                     !.iter = Top.i + 1,
                                     !.xb = Split(dls.batch, dls.n_inp).xb,
                                     !.yb = Split(dls.batch, dls.n_inp).yb],
                       SetTop([Top EXCEPT !.i = @ + 1]))
       ELSE LeaveScope
    /\ UNCHANGED fits

\* all_batches: self.n_iter = len(self.dl); for o in enumerate(self.dl):
\* self.one_batch(*o); one_batch: self.iter = i; split the batch;
\* _with_events(self._do_one_batch, 'batch', CancelBatchException)
AllBatches ==
    /\ InBody("train") \/ InBody("validate")
    /\ IF MoreBatches(Top.i, learn)
       THEN EnterScope("batch",
                       [learn EXCEPT !.n_iter = LenDl(learn), !.iter = Top.i,
                                     !.xb = Split(dls.batch, dls.n_inp).xb,
                                     !.yb = Split(dls.batch, dls.n_inp).yb],
                       SetTop([Top EXCEPT !.i = @ + 1]))
       ELSE LeaveScope
    /\ UNCHANGED fits

\* a _do_one_batch without the early return
DoOneBatchNoReturn ==
    /\ InBody("batch")
    /\ CASE Top.i = 0 ->
              RunOp("model", learn, SetTop([Top EXCEPT !.i = 1]))
         [] Top.i = 1 ->
              Emit("after_pred", learn, hits, trace, stack,
                   SetTop([Top EXCEPT !.i = IF Len(learn.yb) > 0 THEN 2 ELSE 3]),
                   <<>>)
         [] Top.i = 2 ->
              RunOp("loss_func", [learn EXCEPT !.loss = "fresh"],
                    SetTop([Top EXCEPT !.i = 3]))
         [] Top.i = 3 ->
              Emit("after_loss", learn, hits, trace, stack,
                   SetTop([Top EXCEPT !.i = 4]), <<>>)
         [] Top.i = 4 ->
              EnterScope("backward", learn, SetTop([Top EXCEPT !.i = 5]))
         [] Top.i = 5 ->
              EnterScope("step", learn, SetTop([Top EXCEPT !.i = 6]))
         [] OTHER ->
              RunOp("zero_grad", [learn EXCEPT !.grads = FALSE],
                    SetTop([Top EXCEPT !.pc = "after"]))
    /\ UNCHANGED fits

\* _do_one_batch, statement by statement
DoOneBatch ==
    /\ InBody("batch")
    /\ CASE Top.i = 0 ->    \* self.pred = self.model(*self.xb)
              RunOp("model", learn, SetTop([Top EXCEPT !.i = 1]))
         [] Top.i = 1 ->    \* self('after_pred')
              Emit("after_pred", learn, hits, trace, stack,
                   SetTop([Top EXCEPT !.i = IF Len(learn.yb) > 0 THEN 2 ELSE 3]),
                   <<>>)
         [] Top.i = 2 ->    \* if len(self.yb): self.loss_grad = loss_func(..)
              RunOp("loss_func", [learn EXCEPT !.loss = "fresh"],
                    SetTop([Top EXCEPT !.i = 3]))
         [] Top.i = 3 ->    \* self('after_loss'); if not self.training or
                            \* not len(self.yb): return
              LET r == CallOne("after_loss", learn, hits)
              IN Emit("after_loss", learn, hits, trace, stack,
                      IF r.learn.training = "yes" /\ Len(r.learn.yb) > 0
                      THEN SetTop([Top EXCEPT !.i = 4])
                      ELSE SetTop([Top EXCEPT !.pc = "after"]), <<>>)
         [] Top.i = 4 ->    \* _with_events(self._backward, 'backward', ..)
              EnterScope("backward", learn, SetTop([Top EXCEPT !.i = 5]))
         [] Top.i = 5 ->    \* _with_events(self._step, 'step', ..)
              EnterScope("step", learn, SetTop([Top EXCEPT !.i = 6]))
         [] OTHER ->        \* self.opt.zero_grad()
              RunOp("zero_grad", [learn EXCEPT !.grads = FALSE],
                    SetTop([Top EXCEPT !.pc = "after"]))
    /\ UNCHANGED fits

\* _backward: self.loss_grad.backward()
Backward ==
    /\ InBody("backward")
    /\ RunOp("backward", [learn EXCEPT !.grads = TRUE],
             SetTop([Top EXCEPT !.pc = "after"]))

\* _step: self.opt.step()
Step ==
    /\ InBody("step")
    /\ RunOp("opt_step", [learn EXCEPT !.steps = @ + 1],
             SetTop([Top EXCEPT !.pc = "after"]))

(* ----------------------- MiniAI's callback_ctx ------------------------ *)
\* run_cbs(cbs, method_nm): every callback in order of `order` has its
\* method called, with no run flag and no training gate; the exception the
\* first raising method raises, unchanged
RECURSIVE RunCbs(_, _, _)
RunCbs(s, ev, L) ==
    IF s = <<>> THEN NoExc
    ELSE LET e == IF Head(s) = "usr" THEN ScriptedExc(ev, L, 0) ELSE NoExc
         IN IF e.kind # "none" THEN e ELSE RunCbs(Tail(s), ev, L)

\* the body wrapped by the scope nm of one batch
BodyOp(nm) == IF nm = "backward" THEN "backward" ELSE "opt_step"

\* @contextmanager: a generator that returns before its yield
DidNotYield == [kind |-> "error", cls |-> "none", ev |-> "didn't yield"]

Mini0 == [nm |-> "none", status |-> "idle", events |-> <<>>, exc |-> NoExc]

\* a callback_ctx whose after dispatch follows the try statement instead of
\* sitting in its finally clause
CallbackCtxNoFinally(nm, L) ==
    LET b == RunCbs(SortedByOrder(cbs), BeforeEv(nm), L)
        yielded == b.kind = "none"
        r == IF yielded THEN ScriptedExc(BodyOp(nm), L, 0) ELSE b
        leaves == r.kind \notin {"none", nm}
        a == RunCbs(SortedByOrder(cbs), AfterEv(nm), L)
        out == IF leaves THEN r
               ELSE IF a.kind # "none" THEN a
               ELSE IF r.kind = "none" \/ yielded THEN NoExc
               ELSE DidNotYield
    IN [nm |-> nm,
        status |-> IF out.kind = "none" THEN "returned" ELSE "raised",
        events |-> <<BeforeEv(nm)>>
                      \o (IF yielded THEN <<BodyOp(nm)>> ELSE <<>>)
                      \o (IF leaves THEN <<>> ELSE <<AfterEv(nm)>>),
        exc |-> out]

\* with self.callback_ctx(nm): body(). try: self.callback(f'before_{nm}');
\* yield; except Cancel<nm>Exception: pass; finally:
\* self.callback(f'after_{nm}'). r is what the try block raised, a what the
\* finally clause raised (it replaces r)
CallbackCtx(nm, L) ==
    LET b == RunCbs(SortedByOrder(cbs), BeforeEv(nm), L)
        yielded == b.kind = "none"
        r == IF yielded THEN ScriptedExc(BodyOp(nm), L, 0) ELSE b
        a == RunCbs(SortedByOrder(cbs), AfterEv(nm), L)
        out == IF a.kind # "none" THEN a
               ELSE IF r.kind = "none" THEN NoExc
               ELSE IF r.kind # nm THEN r
               ELSE IF yielded THEN NoExc
               ELSE DidNotYield
    IN [nm |-> nm,
        status |-> IF out.kind = "none" THEN "returned" ELSE "raised",
        events |-> <<BeforeEv(nm)>>
                      \o (IF yielded THEN <<BodyOp(nm)>> ELSE <<>>)
                      \o <<AfterEv(nm)>>,
        exc |-> out]

(* ------------------------ MiniAI's fit loop --------------------------- *)
\* the methods the Learner's __getattr__ turns into callback dispatches
MiniOps == <<"predict", "get_loss", "backward", "step", "zero_grad">>

MLoop0 ==
    [status |-> "idle", n_epochs |-> 0, epoch |-> 0, train |-> FALSE,
     stack |-> <<>>, events |-> <<>>, exc |-> NoExc]

\* self.callback(method_nm): run_cbs(self.cbs, method_nm), the model being
\* in training mode or not as one_epoch left it
MiniCallback(M, ev) ==
    RunCbs(SortedByOrder(cbs), ev,
           [learn EXCEPT !.training = IF M.train THEN "yes" ELSE "no"])

\* the record of one dispatch: the method, the pass and epoch index it was
\* dispatched in, and what it raised
MiniLog(M, ev, e) ==
    Append(M.events,
           [ev |-> ev, train |-> M.train, epoch |-> M.epoch, exc |-> e.kind])

\* entering `with self.callback_ctx(nm)`: self.callback(f'before_{nm}')
\* inside try; when it raises, the generator goes to its except and finally
\* clauses without having yielded. pend: what the try block raised
MiniEnter(M, nm) ==
    LET e == MiniCallback(M, BeforeEv(nm))
    IN [M EXCEPT !.events = MiniLog(M, BeforeEv(nm), e),
                 !.stack = Append(@, [nm |-> nm,
                                      pc |-> IF e.kind = "none" THEN "body"
                                             ELSE "after",
                                      pend |-> e, yielded |-> e.kind = "none",
                                      i |-> 0])]

\* the body of the innermost open scope raises e
MiniRaise(M, e) ==
    [M EXCEPT !.stack[Len(M.stack)].pc = "after",
              !.stack[Len(M.stack)].pend = e]

\* leaving callback_ctx(nm): except Cancel<Nm>Exception: pass; finally:
\* self.callback(f'after_{nm}'). What leaves the with statement: what the
\* finally clause raised, else what the try block raised unless it was the
\* matching cancel, which is swallowed (and then @contextmanager raises
\* "generator didn't yield" if the body was never reached)
MiniExit(M) ==
    LET f == M.stack[Len(M.stack)]
        a == MiniCallback(M, AfterEv(f.nm))
        out == IF a.kind # "none" THEN a
               ELSE IF f.pend.kind = "none" THEN NoExc
               ELSE IF f.pend.kind # f.nm THEN f.pend
               ELSE IF f.yielded THEN NoExc
               ELSE DidNotYield
        rest == SubSeq(M.stack, 1, Len(M.stack) - 1)
        M1 == [M EXCEPT !.events = MiniLog(M, AfterEv(f.nm), a),
                        !.stack = rest]
    IN IF rest = <<>>
       THEN [M1 EXCEPT !.status = IF out.kind = "none" THEN "returned"
                                  ELSE "raised",
                       !.exc = out]
       ELSE IF out.kind # "none" THEN MiniRaise(M1, out)
       ELSE M1

(* ------------------------- averaging metrics -------------------------- *)
\* AvgMetric / AvgLoss before the first reset(): total and count are not
\* there yet. log: the (value, batch size) pairs accumulated since the last
\* reset; dropped: a reset has discarded some
Metric0 ==
    [set |-> FALSE, total |-> 0, count |-> 0, log |-> <<>>, dropped |-> FALSE]

\* reset: self.total, self.count = 0., 0
MetricReset(M) ==
    [set |-> TRUE, total |-> 0, count |-> 0, log |-> <<>>,
     dropped |-> M.dropped \/ Len(M.log) > 0]

\* an accumulate that adds the batch value without its batch size
MetricAccumulateUnweighted(M, v, bs) ==
    [M EXCEPT !.total = @ + v, !.count = @ + bs,
              !.log = Append(@, [v |-> v, bs |-> bs])]

\* accumulate: bs = find_bs(learn.yb); self.total += value * bs;
\* self.count += bs, value being func(pred, *yb) or loss.mean()
MetricAccumulate(M, v, bs) ==
    [M EXCEPT !.total = @ + v * bs, !.count = @ + bs,
              !.log = Append(@, [v |-> v, bs |-> bs])]

\* value: self.total / self.count if self.count != 0 else None; the
\* quotient is kept as <<numerator, denominator>>, None as <<>>
MetricValue(M) == IF M.count # 0 THEN <<M.total, M.count>> ELSE <<>>

(* ------------------------ the fastai Optimizer ------------------------ *)
\* the optimizer step callbacks
OptCbs == {"weight_decay", "average_grad", "momentum_step", "sgd_step"}

\* one parameter: p.data, p.grad (<<>>: None) and self.state[p], a dict
\* that has the key grad_avg or not (<<>>); err: a callback raised on it
Param(d) ==
    [data |-> d, grad |-> <<>>, state |-> [grad_avg |-> <<>>], err |-> FALSE]

\* weight_decay(p, lr, wd, do_wd=True): if do_wd and wd != 0:
\* p.data.mul_(1 - lr*wd); returns None
WeightDecay(q, h) ==
    IF h.wd # 0 THEN [q EXCEPT !.data = @ * (1 - h.lr * h.wd)] ELSE q

\* average_grad(p, mom, grad_avg=None): zeros if None;
\* grad_avg.mul_(mom).add_(p.grad.data); return {'grad_avg': grad_avg},
\* which _update merges into the state
AverageGrad(q, h) ==
    LET old == IF q.state.grad_avg = <<>> THEN 0 ELSE q.state.grad_avg[1]
    IN [q EXCEPT !.state.grad_avg = <<old * h.mom + q.grad[1]>>]

\* momentum_step(p, lr, grad_avg): p.data.add_(grad_avg, alpha=-lr);
\* grad_avg has no default, the call raises when the state has no such key
MomentumStep(q, h) ==
    IF q.state.grad_avg = <<>> THEN [q EXCEPT !.err = TRUE]
    ELSE [q EXCEPT !.data = @ - h.lr * q.state.grad_avg[1]]

\* sgd_step(p, lr): p.data.add_(p.grad.data, alpha=-lr)
SgdStep(q, h) == [q EXCEPT !.data = @ - h.lr * q.grad[1]]

\* state = _update(state, cb(p, **{**state, **hyper}))
ApplyCb(cb, q, h) ==
    CASE cb = "weight_decay" -> WeightDecay(q, h)
      [] cb = "average_grad" -> AverageGrad(q, h)
      [] cb = "momentum_step" -> MomentumStep(q, h)
      [] OTHER -> SgdStep(q, h)

\* a loop over the step callbacks that starts from the last one
RECURSIVE ApplyCbsLastFirst(_, _, _)
ApplyCbsLastFirst(l, q, h) ==
    IF l = <<>> \/ q.err THEN q
    ELSE ApplyCbsLastFirst(SubSeq(l, 1, Len(l) - 1),
                           ApplyCb(l[Len(l)], q, h), h)

\* for cb in self.cbs: state = _update(state, cb(p, ...)); a callback that
\* raises ends the loop
RECURSIVE ApplyCbs(_, _, _)
ApplyCbs(l, q, h) ==
    IF l = <<>> \/ q.err THEN q
    ELSE ApplyCbs(Tail(l), ApplyCb(Head(l), q, h), h)

\* step: for p, pg, state, hyper in self.all_params(with_grad=True): apply
\* the callbacks, self.state[p] = state. ps: the parameters still to visit
RECURSIVE StepParams(_, _, _)
StepParams(ps, l, h) ==
    IF ps = <<>> THEN <<>>
    ELSE IF Head(ps).grad = <<>> THEN <<Head(ps)>> \o StepParams(Tail(ps), l, h)
    ELSE LET q == ApplyCbs(l, Head(ps), h)
         IN IF q.err THEN <<q>> \o Tail(ps)
            ELSE <<q>> \o StepParams(Tail(ps), l, h)

\* zero_grad: for p in self.all_params(with_grad=True): p.grad.zero_()
ZeroGradParams(ps) ==
    [i \in 1..Len(ps) |->
        IF ps[i].grad = <<>> THEN ps[i] ELSE [ps[i] EXCEPT !.grad = <<0>>]]

\* SGD(params, lr, mom, wd): cbs = [weight_decay], average_grad if
\* mom != 0, then sgd_step if mom == 0 else momentum_step
SGDCbs(mom) ==
    <<"weight_decay">>
        \o (IF mom # 0 THEN <<"average_grad">> ELSE <<>>)
        \o (IF mom = 0 THEN <<"sgd_step">> ELSE <<"momentum_step">>)

\* no Optimizer yet; then Optimizer(params, cbs, lr=lr, mom=mom, wd=wd).
\* last: the method called last, n: calls of step, nb: backward passes
Optim0 ==
    [made |-> FALSE, cbs |-> <<>>, hypers |-> [lr |-> 0, mom |-> 0, wd |-> 0],
     params |-> <<>>, last |-> "none", n |-> 0, nb |-> 0]

Optimizer(ps, l, lr, mom, wd) ==
    [made |-> TRUE, cbs |-> l, hypers |-> [lr |-> lr, mom |-> mom, wd |-> wd],
     params |-> ps, last |-> "init", n |-> 0, nb |-> 0]

\* loss.backward(): the gradient g is added to p.grad of the parameters I
\* that took part in the forward pass
OptimBackward(O, I, g) ==
    [O EXCEPT !.params =
                 [i \in 1..Len(@) |->
                     IF i \in I
                     THEN [@[i] EXCEPT !.grad = IF @ = <<>> THEN <<g>>
                                                ELSE <<@[1] + g>>]
                     ELSE @[i]],
              !.last = "backward", !.nb = @ + 1]

OptimStep(O) ==
    [O EXCEPT !.params = StepParams(@, O.cbs, O.hypers),
              !.last = "step", !.n = @ + 1]

OptimZeroGrad(O) ==
    [O EXCEPT !.params = ZeroGradParams(@), !.last = "zero_grad"]

(* ---------------------- Composer's DecoupledSGDW ---------------------- *)
\* quotient and square root of numbers for which they are whole
Quot(a, b) ==
    LET m == IF a < 0 THEN 0 - a ELSE a
    IN CHOOSE q \in (0 - m)..m : q * b = a
Sqrt(a) == CHOOSE r \in 0..a : r * r = a

RECURSIVE Pow(_, _)
Pow(b, n) == IF n = 0 THEN 1 ELSE b * Pow(b, n - 1)

Sgdw0 ==
    [made |-> FALSE, param |-> 0, grad |-> <<>>, buf |-> <<>>, lr |-> 0,
     initial_lr |-> 0, momentum |-> 0, dampening |-> 0, weight_decay |-> 0,
     nesterov |-> FALSE]

\* DecoupledSGDW(params, lr, momentum, dampening, weight_decay, nesterov):
\* group['initial_lr'] = group['lr']
DecoupledSGDW(p, lr, momentum, dampening, wd, nesterov) ==
    [made |-> TRUE, param |-> p, grad |-> <<>>, buf |-> <<>>, lr |-> lr,
     initial_lr |-> lr, momentum |-> momentum, dampening |-> dampening,
     weight_decay |-> wd, nesterov |-> nesterov]

\* step and sgdw on the one parameter: the momentum buffer (state
\* 'momentum_buffer', <<>>: not there), the decay by
\* (lr / initial_lr) * weight_decay, then param.add_(grad, alpha=-lr)
SgdwStep(S) ==
    IF S.grad = <<>> THEN S
    ELSE LET buf == IF S.momentum = 0 THEN S.buf
                    ELSE IF S.buf = <<>> THEN S.grad
                    ELSE <<S.buf[1] * S.momentum
                             + S.grad[1] * (1 - S.dampening)>>
             g == IF S.momentum = 0 THEN S.grad[1]
                  ELSE IF S.nesterov THEN S.grad[1] + S.momentum * buf[1]
                  ELSE buf[1]
             decay_factor ==
                 IF S.initial_lr # 0 THEN Quot(S.lr, S.initial_lr) ELSE 1
             p == IF S.weight_decay # 0
                  THEN S.param * (1 - decay_factor * S.weight_decay)
                  ELSE S.param
         IN [S EXCEPT !.param = p - S.lr * g, !.buf = buf]

(* ----------------------------- adam_step ------------------------------ *)
Adam0 ==
    [called |-> FALSE, param |-> 0, grad |-> 0, lr |-> 0, wd |-> 0,
     given |-> 0, local |-> 0, grad_avg |-> <<>>, sqr_avg |-> <<>>,
     step |-> 0]

\* adam_step(param, grad, lr, wd, mom, sqr_mom, eps, grad_avg, sqr_avg,
\* step). param: the caller's tensor after the call; param.mul(..) and
\* torch.addcdiv(param, ..) build new tensors that the function binds to its
\* own name `param`, whose last value is local. The returned dict is
\* grad_avg, sqr_avg, step
AdamStep(param, grad, lr, wd, mom, sqr_mom, eps, grad_avg, sqr_avg, step) ==
    LET avg0 == IF grad_avg = <<>> THEN 0 ELSE grad_avg[1]
        sqr0 == IF sqr_avg = <<>> THEN 0 ELSE sqr_avg[1]
        step1 == step + 1
        p1 == IF wd # 0 THEN param * (1 - lr * wd) ELSE param
        avg1 == avg0 * mom + grad * (1 - mom)
        sqr1 == sqr0 * sqr_mom + grad * grad * (1 - sqr_mom)
        debias1 == 1 - Pow(mom, step1)
        debias2 == 1 - Pow(sqr_mom, step1)
    IN [called |-> TRUE, param |-> param, grad |-> grad, lr |-> lr,
        wd |-> wd, given |-> step,
        local |-> p1 + Quot((0 - Quot(lr, debias1)) * avg1,
                            Sqrt(Quot(sqr1, debias2)) + eps),
        grad_avg |-> <<avg1>>, sqr_avg |-> <<sqr1>>, step |-> step1]

(* --------------------------- specification ---------------------------- *)
Learner0 ==
    [training |-> "unset", epoch |-> 0, iter |-> 0, n_epoch |-> 1,
     n_iter |-> 0, train_iter |-> 0, dl |-> "none", loss |-> "none",
     grads |-> FALSE, steps |-> 0, opt |-> FALSE, xb |-> <<>>, yb |-> <<>>]

Recorder0 == [lrs |-> 0, losses |-> 0, nTrain |-> 0, nValid |-> 0]

OuterScopes == {"fit", "epoch", "train", "validate"}
OuterPoints ==
    {BeforeEv(x) : x \in OuterScopes} \cup {AfterEv(x) : x \in OuterScopes}
InnerPoints ==
    {"after_pred", "after_loss"}
        \cup {BeforeEv(x) : x \in Scopes \ OuterScopes}
        \cup {AfterEv(x) : x \in Scopes \ OuterScopes}

\* the scripts of the user callback and of the collaborators: raise `kind`
\* at point `ev` (a handler of the user callback or a body step), in phase
\* `phase`, on the nth matching invocation (0: on every one); onCancel: what
\* the user callback's after_cancel handler for that kind raises
NoPlan ==
    [ev |-> "none", kind |-> "none", phase |-> "any", nth |-> 0,
     onCancel |-> "none"]

Plans ==
    {NoPlan}
        \cup [ev : OuterPoints, kind : ExcKinds, phase : {"any"},
              nth : 0..MaxNth, onCancel : {"none"}]
        \cup [ev : InnerPoints \cup Ops, kind : ExcKinds,
              phase : {"any", "train", "valid"}, nth : 0..MaxNth,
              onCancel : {"none"}]
        \cup [ev : OuterPoints \cup InnerPoints \cup Ops, kind : Scopes,
              phase : {"any"}, nth : {1}, onCancel : {"same", "error"}]

\* a session as Learner.__init__ leaves it: the default callbacks first,
\* then the caller's
\* no second Learner in play, no attribute set on a callback
NoOther ==
    /\ other = [cbs |-> <<>>, attrs |-> [n \in Names |-> "none"]]
    /\ shadow = [c \in CbPool |-> "unset"]
    /\ warned = FALSE
    /\ mini = Mini0
    /\ metric = Metric0
    /\ optim = Optim0
    /\ sgdw = Sgdw0
    /\ adam = Adam0
    /\ mloop = MLoop0

InitSession ==
    /\ cbs = <<"tec", "rec", "usr", "off", "early">>
    /\ cblearn = [c \in CbPool |->
                    IF c \in {"tec", "rec", "usr", "off", "early"}
                    THEN "learner" ELSE "none"]
    /\ attrs = [n \in Names |->
                  CASE n = "train_eval" -> "tec"
                    [] n = "recorder" -> "rec"
                    [] n = "user" -> "off"
                    [] n = "early" -> "early"
                    [] OTHER -> "none"]
    /\ NoOther
    /\ run = [c \in CbPool |-> c # "off"]
    /\ learn = Learner0
    /\ recorder = Recorder0
    /\ hits = 0
    /\ stack = <<>>
    /\ trace = <<>>
    /\ status = "idle"
    /\ exc = NoExc
    /\ fits = 0

Init ==
    /\ InitSession
    /\ dls = Data(NTrain, NValid, 2)
    /\ plan \in Plans
    /\ maxFits = 1

Next ==
    \/ \E n \in 0..MaxEpochs : Fit(n)
    \/ DoFit
    \/ DoEpoch
    \/ AllBatches
    \/ DoOneBatch
    \/ Backward
    \/ Step
    \/ WithEventsCancel
    \/ WithEventsAfter

Spec == Init /\ [][Next]_vars

(* ------------------- several fits on one session ---------------------- *)
\* the scripts used when fit() is called again on the same session: none,
\* an error in a handler, a CancelFit before and after the fit body, a
\* CancelBatch; each on the first matching invocation of every fit
RefitPoints ==
    {<<"after_loss", "error">>, <<"before_epoch", "fit">>,
     <<"after_fit", "fit">>, <<"after_pred", "batch">>}

RefitPlans ==
    {NoPlan} \cup
    {p \in Plans : /\ <<p.ev, p.kind>> \in RefitPoints
                   /\ p.phase = "any" /\ p.nth = 1 /\ p.onCancel = "none"}

InitRefit ==
    /\ InitSession
    /\ dls = Data(NTrain, NValid, 2)
    /\ plan \in RefitPlans
    /\ maxFits = MaxFits

SpecRefit == InitRefit /\ [][Next]_vars

(* ------------------- one fit with one cancel script ------------------- *)
\* the scripts that raise a cancel signal and nothing else: any signal at
\* any event or body step, on the first or on every matching invocation
CancelPlans ==
    {p \in Plans : p.kind \in Scopes /\ p.phase = "any"
                      /\ p.onCancel = "none"}

InitCancel ==
    /\ InitSession
    /\ dls = Data(NTrain, NValid, 2)
    /\ plan \in CancelPlans
    /\ maxFits = 1

SpecCancel == InitCancel /\ [][Next]_vars

(* -------------------------- the registry ------------------------------ *)
\* a remove that drops the last occurrence
RECURSIVE RemoveLast(_, _)
RemoveLast(s, c) ==
    IF s = <<>> THEN <<>>
    ELSE IF Last(s) = c THEN Front(s)
    ELSE Append(RemoveLast(Front(s), c), Last(s))

\* list.remove(c): drop the first occurrence
RECURSIVE RemoveFirst(_, _)
RemoveFirst(s, c) ==
    IF s = <<>> THEN <<>>
    ELSE IF Head(s) = c THEN Tail(s)
    ELSE <<Head(s)>> \o RemoveFirst(Tail(s), c)

\* a remove_cb that leaves cb.learn as it is
RemoveOneKeepsLearn(r, c) ==
    [cbs |-> IF c \in Range(r.cbs) THEN RemoveFirst(r.cbs, c) ELSE r.cbs,
     cblearn |-> r.cblearn,
     attrs |-> [r.attrs EXCEPT ![NameOf(c)] = "none"]]

\* the registry after remove_cb(c) of an instance: r = [cbs, cblearn, attrs]
RemoveOne(r, c) ==
    [cbs |-> IF c \in Range(r.cbs) THEN RemoveFirst(r.cbs, c) ELSE r.cbs,
     cblearn |-> [r.cblearn EXCEPT ![c] = "none"],
     attrs |-> [r.attrs EXCEPT ![NameOf(c)] = "none"]]

\* a remove_cbs that stops after the first element
RemoveEachFirstOnly(r, l) ==
    IF l = <<>> THEN r ELSE RemoveOne(r, Head(l))

\* remove_cbs(l): remove_cb of each element in turn
RECURSIVE RemoveEach(_, _)
RemoveEach(r, l) ==
    IF l = <<>> THEN r ELSE RemoveEach(RemoveOne(r, Head(l)), Tail(l))

\* _grab_cbs(cls): the registered instances of class cls
GrabCbs(cls) == SelectSeq(cbs, LAMBDA c : ClassOf(c) = cls)

Registry == [cbs |-> cbs, cblearn |-> cblearn, attrs |-> attrs]

SetRegistry(r) ==
    /\ cbs' = r.cbs
    /\ cblearn' = r.cblearn
    /\ attrs' = r.attrs
    /\ trace' = <<>>
    /\ UNCHANGED <<aside, other, shadow, warned, run, learn, recorder, dls, plan,
                   hits, stack, status, exc, fits, maxFits>>

\* an add_cb that puts the callback in front of the list
AddCbFront(c) ==
    /\ status # "fitting"
    /\ Len(cbs) < MaxCbs
    /\ SetRegistry([cbs |-> <<c>> \o cbs,
                    cblearn |-> [cblearn EXCEPT ![c] = "learner"],
                    attrs |-> [attrs EXCEPT ![NameOf(c)] = c]])

\* an add_cb that ignores an instance that is registered already
AddCbOnce(c) ==
    /\ status # "fitting"
    /\ Len(cbs) < MaxCbs
    /\ SetRegistry([cbs |-> IF c \in Range(cbs) THEN cbs ELSE Append(cbs, c),
                    cblearn |-> [cblearn EXCEPT ![c] = "learner"],
                    attrs |-> [attrs EXCEPT ![NameOf(c)] = c]])

\* an add_cb that leaves an attribute alone once it is set
AddCbKeepsFirst(c) ==
    /\ status # "fitting"
    /\ Len(cbs) < MaxCbs
    /\ SetRegistry([cbs |-> Append(cbs, c),
                    cblearn |-> [cblearn EXCEPT ![c] = "learner"],
                    attrs |-> IF attrs[NameOf(c)] = "none"
                              THEN [attrs EXCEPT ![NameOf(c)] = c]
                              ELSE attrs])

\* Learner.add_cb(cb) with an instance (a type is instantiated first)
AddCb(c) ==
    /\ status # "fitting"
    /\ Len(cbs) < MaxCbs
    /\ SetRegistry([cbs |-> Append(cbs, c),
                    cblearn |-> [cblearn EXCEPT ![c] = "learner"],
                    attrs |-> [attrs EXCEPT ![NameOf(c)] = c]])

\* Learner.remove_cb(cb) with an instance
RemoveCb(c) ==
    /\ status # "fitting"
    /\ SetRegistry(RemoveOne(Registry, c))

\* Learner.remove_cb(cb) with a type
RemoveCbType(cls) ==
    /\ status # "fitting"
    /\ SetRegistry(RemoveEach(Registry, GrabCbs(cls)))

\* the names dispatched from outside a fit; one is not an event
CallEvents ==
    {"after_create", "before_fit", "before_train", "before_validate",
     "before_batch", "after_fit", UnknownEvent}

\* Learner.__call__(event_name) from outside fit(): _call_one raises for a
\* name that is no event, else runs every callback in sorted order
Call(ev) ==
    /\ status # "fitting"
    /\ IF ev \notin Events
       THEN /\ trace' = <<Entry(ev, <<>>, <<>>, <<>>, "error")>>
            /\ exc' = MissingExc(ev)
            /\ UNCHANGED <<learn, recorder, run>>
       ELSE LET r == CallOne(ev, learn, 0)
            IN /\ trace' = <<Entry(ev, r.asked, r.seen, r.called, r.exc.kind)>>
               /\ exc' = r.exc
               /\ learn' = r.learn
               /\ recorder' = r.recorder
               /\ run' = r.run
    /\ hits' = 0
    /\ UNCHANGED <<aside, cbs, cblearn, other, shadow, warned, attrs, dls, plan,
                   stack, status, fits, maxFits>>

\* the user callback's scripts in the registry specification
RegPlans ==
    {NoPlan,
     [ev |-> "before_fit", kind |-> "error", phase |-> "any", nth |-> 0,
      onCancel |-> "none"]}

\* Learner(cbs=None, default_cbs=False): an empty registry
InitReg ==
    /\ cbs = <<>>
    /\ cblearn = [c \in CbPool |-> "none"]
    /\ attrs = [n \in Names |-> "none"]
    /\ NoOther
    /\ run = [c \in CbPool |-> c # "off"]
    /\ learn = Learner0
    /\ recorder = Recorder0
    /\ dls = Data(NTrain, NValid, 2)
    /\ plan \in RegPlans
    /\ hits = 0
    /\ stack = <<>>
    /\ trace = <<>>
    /\ status = "idle"
    /\ exc = NoExc
    /\ fits = 0
    /\ maxFits = 0

\* the instances and classes handed to add_cb and remove_cb
RegPool == {"tec", "usr", "off"}
RegClasses == {ClassOf(c) : c \in RegPool}

NextReg ==
    \/ \E c \in RegPool : AddCb(c)
    \/ \E c \in RegPool : RemoveCb(c)
    \/ \E cls \in RegClasses : RemoveCbType(cls)
    \/ \E ev \in CallEvents : Call(ev)

SpecReg == InitReg /\ [][NextReg]_vars

(* --------------------------- two Learners ----------------------------- *)
\* the second Learner's registry, with the callbacks' back-references
OtherRegistry == [cbs |-> other.cbs, cblearn |-> cblearn, attrs |-> other.attrs]

SetOtherRegistry(r) ==
    /\ other' = [cbs |-> r.cbs, attrs |-> r.attrs]
    /\ cblearn' = r.cblearn
    /\ UNCHANGED <<aside, cbs, attrs, shadow, warned, run, learn, recorder, dls,
                   plan, hits, stack, trace, status, exc, fits, maxFits>>

\* add_cb(cb) on the second Learner
AddCbOther(c) ==
    /\ Len(other.cbs) < MaxCbs
    /\ SetOtherRegistry([cbs |-> Append(other.cbs, c),
                         cblearn |-> [cblearn EXCEPT ![c] = "other"],
                         attrs |-> [other.attrs EXCEPT ![NameOf(c)] = c]])

\* remove_cb(cb) on the second Learner
RemoveCbOther(c) ==
    LET r == RemoveOne(OtherRegistry, c)
    IN /\ r.cbs \in Seq(CbPool)
       /\ SetOtherRegistry(r)

\* the instances handed to the two Learners
OwnPool == {"tec", "usr"}

InitOwn ==
    /\ InitReg
    /\ plan = NoPlan

NextOwn ==
    \/ \E c \in OwnPool : AddCb(c)
    \/ \E c \in OwnPool : RemoveCb(c)
    \/ \E c \in OwnPool : AddCbOther(c)
    \/ \E c \in OwnPool : RemoveCbOther(c)

SpecOwn == InitOwn /\ [][NextOwn]_vars

(* ---------------------- attribute delegation -------------------------- *)
\* a __setattr__ that writes through to the Learner
CbSetTrainingThrough(c, v) ==
    /\ status # "fitting"
    /\ warned' = (cblearn[c] = "learner" /\ learn.training # "unset")
    /\ learn' = [learn EXCEPT !.training = v]
    /\ trace' = <<>>
    /\ UNCHANGED <<aside, cbs, cblearn, other, shadow, attrs, run, recorder, dls,
                   plan, hits, stack, status, exc, fits, maxFits>>

\* Callback.__setattr__('training', v) on instance c: warn if the Learner
\* has the attribute, then set it on the callback itself
CbSetTraining(c, v) ==
    /\ status # "fitting"
    /\ warned' = (cblearn[c] = "learner" /\ learn.training # "unset")
    /\ shadow' = [shadow EXCEPT ![c] = v]
    /\ trace' = <<>>
    /\ UNCHANGED <<aside, cbs, cblearn, other, attrs, run, learn, recorder, dls,
                   plan, hits, stack, status, exc, fits, maxFits>>

\* the callbacks that get the attribute set: two registered, one not
AttrPool == {"usr", "early", "prog"}

InitAttr ==
    /\ InitSession
    /\ dls = Data(NTrain, NValid, 2)
    /\ plan = NoPlan
    /\ maxFits = 0

NextAttr ==
    \/ \E c \in AttrPool, v \in {"yes", "no"} : CbSetTraining(c, v)
    \/ \E ev \in CallEvents : Call(ev)

SpecAttr == InitAttr /\ [][NextAttr]_vars

(* ------------------- loaders of different lengths --------------------- *)
\* a handler that dispatches a name that is no event, once per fit
MissingPlan ==
    [ev |-> "after_pred", kind |-> "missing", phase |-> "any", nth |-> 1,
     onCancel |-> "none"]

LoaderPlans == RefitPlans \cup {MissingPlan}

\* the names dispatched around a fit in this specification
SessionEvents == {"after_create", UnknownEvent}

InitLoaders ==
    /\ InitSession
    /\ dls \in {Data(T, V, 2) : T \in 0..MaxTrain, V \in 0..MaxValid}
    /\ plan \in LoaderPlans
    /\ maxFits = 1

NextLoaders ==
    \/ Next
    \/ \E ev \in SessionEvents : Call(ev)

SpecLoaders == InitLoaders /\ [][NextLoaders]_vars

(* ----------------- several fits over varying loaders ------------------ *)
\* fit() called up to MaxFits times on a session whose loaders have any
\* lengths up to MaxTrain and MaxValid and whose batches have targets or
\* have none
InitCount ==
    /\ InitSession
    /\ dls \in {Data(T, V, n) :
                  T \in 0..MaxTrain, V \in 0..MaxValid, n \in 1..2}
    /\ plan \in RefitPlans
    /\ maxFits = MaxFits

SpecCount == InitCount /\ [][Next]_vars

(* --------------------- batches without targets ------------------------ *)
\* the data has targets (len(self.yb) > 0 in every batch) or has none
InitTargets ==
    /\ InitSession
    /\ dls \in {Data(NTrain, NValid, n) : n \in 1..2}
    /\ plan \in RefitPlans
    /\ maxFits = 1

SpecTargets == InitTargets /\ [][Next]_vars

(* ------------------------ splitting the batch ------------------------- *)
\* loaders of one batch each; the batch is a tuple of 1..MaxLen tensors and
\* dls.n_inp is not set or is a count in 0..MaxLen + 1; the user callback
\* follows one of the scripts of the refit specification
InitSplit ==
    /\ InitSession
    /\ dls \in [train : {1}, valid : {1},
                batch : {Batch(n) : n \in 1..MaxLen},
                n_inp : {<<>>} \cup {<<i>> : i \in 0..(MaxLen + 1)}]
    /\ plan \in RefitPlans
    /\ maxFits = 1

SpecSplit == InitSplit /\ [][Next]_vars

(* ------------------------- construction ------------------------------- *)
\* defaults.callbacks, as far as the pool has them
DefaultCbs == <<"tec", "rec">>

\* longest list of callbacks handed to Learner(cbs=...)
MaxGiven == 2
\* the callbacks the caller hands over, and the lists of them
GivenPool == {"usr", "off", "early"}
GivenLists == UNION {[1..n -> GivenPool] : n \in 0..MaxGiven}

\* the registry after add_cb(c)
AddOne(r, c) ==
    [cbs |-> Append(r.cbs, c),
     cblearn |-> [r.cblearn EXCEPT ![c] = "learner"],
     attrs |-> [r.attrs EXCEPT ![NameOf(c)] = c]]

\* add_cbs(l): add_cb of each element in turn
RECURSIVE AddEach(_, _)
AddEach(r, l) ==
    IF l = <<>> THEN r ELSE AddEach(AddOne(r, Head(l)), Tail(l))

\* an __init__ that adds the caller's callbacks before the default ones
ConstructedCallerFirst(d, g) ==
    AddEach(AddEach(Registry, g), IF d THEN DefaultCbs ELSE <<>>)

\* the registry __init__ builds; d: default_cbs, g: cbs
Constructed(d, g) ==
    AddEach(AddEach(Registry, IF d THEN DefaultCbs ELSE <<>>), g)

\* Learner.__init__(cbs=g, default_cbs=d): self.cbs = L(); add the default
\* callbacks, add the caller's, self("after_create")
Construct(d, g) ==
    /\ status = "new"
    /\ LET r == Constructed(d, g)
           res == CallAll(SortedByOrder(r.cbs), "after_create",
                          [learn |-> learn, recorder |-> recorder,
                           run |-> run, hits |-> 0, asked |-> <<>>,
                           seen |-> <<>>, called |-> <<>>, exc |-> NoExc])
       IN /\ cbs' = r.cbs
          /\ cblearn' = r.cblearn
          /\ attrs' = r.attrs
          /\ learn' = res.learn
          /\ recorder' = res.recorder
          /\ run' = res.run
          /\ trace' = <<Entry("after_create", res.asked, res.seen,
                              res.called, res.exc.kind)>>
          /\ exc' = res.exc
          /\ status' = IF res.exc.kind = "none" THEN "idle" ELSE "raised"
    /\ hits' = 0
    /\ UNCHANGED <<aside, other, shadow, warned, dls, plan, stack, fits, maxFits>>

\* before Learner(...) is called
InitCreate ==
    /\ cbs = <<>>
    /\ cblearn = [c \in CbPool |-> "none"]
    /\ attrs = [n \in Names |-> "none"]
    /\ NoOther
    /\ run = [c \in CbPool |-> c # "off"]
    /\ learn = Learner0
    /\ recorder = Recorder0
    /\ dls = Data(NTrain, NValid, 2)
    /\ plan = NoPlan
    /\ hits = 0
    /\ stack = <<>>
    /\ trace = <<>>
    /\ status = "new"
    /\ exc = NoExc
    /\ fits = 0
    /\ maxFits = 1

\* add_cb, remove_cb and the steps of fit on the constructed session; fit
\* is called on sessions that have their TrainEvalCallback
SessionAddCb(c) == status # "new" /\ AddCb(c)
SessionRemoveCb(c) == status # "new" /\ RemoveCb(c)
SessionFit == status # "new" /\ "tec" \in Range(cbs) /\ Next

NextCreate ==
    \/ \E d \in BOOLEAN, g \in GivenLists : Construct(d, g)
    \/ \E c \in GivenPool : SessionAddCb(c)
    \/ \E c \in GivenPool : SessionRemoveCb(c)
    \/ SessionFit

SpecCreate == InitCreate /\ [][NextCreate]_vars

(* ----------------------- per-callback gating -------------------------- *)
\* the registered callbacks: one of each combination of run_train and
\* run_valid; their run flags are set at will before the session is used
GateCbs == <<"tec", "usr", "val", "mute">>

InitGate ==
    /\ cbs = GateCbs
    /\ cblearn = [c \in CbPool |->
                    IF c \in Range(GateCbs) THEN "learner" ELSE "none"]
    /\ attrs = [n \in Names |->
                  CASE n = "train_eval" -> "tec"
                    [] n = "user" -> "mute"
                    [] OTHER -> "none"]
    /\ NoOther
    /\ run \in [CbPool -> BOOLEAN]
    /\ \A c \in CbPool \ Range(GateCbs) : run[c]
    /\ learn = Learner0
    /\ recorder = Recorder0
    /\ dls = Data(NTrain, NValid, 2)
    /\ plan \in RefitPlans
    /\ hits = 0
    /\ stack = <<>>
    /\ trace = <<>>
    /\ status = "idle"
    /\ exc = NoExc
    /\ fits = 0
    /\ maxFits = 1

\* events dispatched by hand, and one fit
NextGate ==
    \/ \E ev \in CallEvents : Call(ev)
    \/ Next

SpecGate == InitGate /\ [][NextGate]_vars

(* ------------- _with_events next to MiniAI's callback_ctx ------------- *)
\* the scopes whose body is one call, and the scripts: the user callback
\* raises in before_X or after_X, or the body raises
CtxScopes == {"backward", "step"}
CtxPoints ==
    {BeforeEv(x) : x \in CtxScopes} \cup {AfterEv(x) : x \in CtxScopes}
        \cup {BodyOp(x) : x \in CtxScopes}
CtxPlans == {NoPlan} \cup {p \in Plans : p.ev \in CtxPoints}

InitCtx ==
    /\ InitSession
    /\ dls = Data(NTrain, NValid, 2)
    /\ plan \in CtxPlans
    /\ maxFits = 1

\* self._with_events(f, nm, Cancel<nm>Exception) called on its own
WithEvents(nm) ==
    /\ status = "idle" /\ mini.nm \in {"none", nm}
    /\ EnterScope(nm, learn, <<>>)
    /\ UNCHANGED fits

\* with self.callback_ctx(nm): f()
WithCallbackCtx(nm) ==
    /\ mini.status = "idle" /\ status # "fitting"
    /\ IF trace = <<>> THEN TRUE ELSE trace[1].ev = BeforeEv(nm)
    /\ mini' = CallbackCtx(nm, learn)
    /\ UNCHANGED <<cbs, cblearn, other, shadow, warned, attrs, run, learn,
                   recorder, dls, plan, hits, stack, trace, status, exc,
                   fits, maxFits, metric, optim, sgdw, adam, mloop>>

NextCtx ==
    \/ \E nm \in CtxScopes : WithEvents(nm)
    \/ \E nm \in CtxScopes : WithCallbackCtx(nm)
    \/ Backward
    \/ Step
    \/ WithEventsCancel
    \/ WithEventsAfter

SpecCtx == InitCtx /\ [][NextCtx]_vars

(* ----------------------- metrics on their own ------------------------- *)
\* per-batch values, batch sizes and accumulate calls between resets
MaxVal == 2
MaxBs == 2
MaxAcc == 3

\* everything but the named variables stays as it is
LoopUnchanged ==
    UNCHANGED <<cbs, cblearn, other, shadow, warned, attrs, run, learn,
                recorder, dls, plan, hits, stack, trace, status, exc, fits,
                maxFits>>

InitMetric ==
    /\ InitSession
    /\ dls = Data(NTrain, NValid, 2)
    /\ plan = NoPlan
    /\ maxFits = 0

\* Metric.reset()
Reset ==
    /\ metric' = MetricReset(metric)
    /\ LoopUnchanged /\ UNCHANGED <<mloop, mini, optim, sgdw, adam>>

\* Metric.accumulate(learn) on a batch of bs items whose value is v
Accumulate(v, bs) ==
    /\ metric.set /\ Len(metric.log) < MaxAcc
    /\ metric' = MetricAccumulate(metric, v, bs)
    /\ LoopUnchanged /\ UNCHANGED <<mloop, mini, optim, sgdw, adam>>

NextMetric ==
    \/ Reset
    \/ \E v \in (0 - MaxVal)..MaxVal, bs \in 1..MaxBs : Accumulate(v, bs)

SpecMetric == InitMetric /\ [][NextMetric]_vars

(* ---------------------- the Optimizer on its own ---------------------- *)
\* hyper-parameters, gradients and calls of step
MaxLr == 2
MaxMom == 1
MaxWd == 1
MaxGrad == 1
MaxOptSteps == 2

\* the lists of step callbacks an Optimizer is built with: those of SGD
\* and the same callbacks in other orders
StepLists ==
    {SGDCbs(0), SGDCbs(1), <<"sgd_step", "weight_decay">>,
     <<"momentum_step", "average_grad">>,
     <<"average_grad", "momentum_step", "weight_decay">>,
     <<"weight_decay", "momentum_step">>}

InitOptim ==
    /\ InitSession
    /\ dls = Data(NTrain, NValid, 2)
    /\ plan = NoPlan
    /\ maxFits = 0

\* Optimizer([p1, p2], cbs, lr=lr, mom=mom, wd=wd)
MakeOptimizer(l, lr, mom, wd) ==
    /\ ~optim.made
    /\ optim' = Optimizer(<<Param(1), Param(2)>>, l, lr, mom, wd)
    /\ LoopUnchanged /\ UNCHANGED <<mloop, mini, metric, sgdw, adam>>

\* loss.backward() after a forward pass through the parameters I, once
\* more often than step at most
OptBackward(I, g) ==
    /\ optim.made /\ optim.nb <= optim.n
    /\ \A i \in 1..Len(optim.params) : ~optim.params[i].err
    /\ optim' = OptimBackward(optim, I, g)
    /\ LoopUnchanged /\ UNCHANGED <<mloop, mini, metric, sgdw, adam>>

\* opt.step()
OptStep ==
    /\ optim.made /\ optim.n < MaxOptSteps
    /\ \A i \in 1..Len(optim.params) : ~optim.params[i].err
    /\ optim' = OptimStep(optim)
    /\ LoopUnchanged /\ UNCHANGED <<mloop, mini, metric, sgdw, adam>>

\* opt.zero_grad()
OptZeroGrad ==
    /\ optim.made /\ optim.last # "zero_grad"
    /\ optim' = OptimZeroGrad(optim)
    /\ LoopUnchanged /\ UNCHANGED <<mloop, mini, metric, sgdw, adam>>

NextOptim ==
    \/ \E l \in StepLists, lr \in 1..MaxLr, mom \in 0..MaxMom,
          wd \in 0..MaxWd : MakeOptimizer(l, lr, mom, wd)
    \/ \E I \in {{1}, {1, 2}}, g \in 1..MaxGrad : OptBackward(I, g)
    \/ OptStep
    \/ OptZeroGrad

SpecOptim == InitOptim /\ [][NextOptim]_vars

(* ------------- fastai's SGD beside Composer's DecoupledSGDW ----------- *)
\* steps taken by the two optimizers
MaxSgdSteps == 3

InitSgdw ==
    /\ InitSession
    /\ dls = Data(NTrain, NValid, 2)
    /\ plan = NoPlan
    /\ maxFits = 0

\* SGD([p], lr, mom, wd) and DecoupledSGDW([p], lr, momentum=mom,
\* dampening=0, weight_decay=wd, nesterov=False) on parameters of the same
\* value
MakeBoth(p, lr, mom, wd) ==
    /\ ~optim.made /\ ~sgdw.made
    /\ optim' = Optimizer(<<Param(p)>>, SGDCbs(mom), lr, mom, wd)
    /\ sgdw' = DecoupledSGDW(p, lr, mom, 0, wd, FALSE)
    /\ LoopUnchanged /\ UNCHANGED <<mloop, mini, metric, adam>>

\* the same gradient g for both parameters, then step() of both
BothStep(g) ==
    /\ optim.made /\ sgdw.made /\ optim.n < MaxSgdSteps
    /\ optim' = OptimStep(OptimBackward(OptimZeroGrad(optim), {1}, g))
    /\ sgdw' = SgdwStep([sgdw EXCEPT !.grad = <<g>>])
    /\ LoopUnchanged /\ UNCHANGED <<mloop, mini, metric, adam>>

NextSgdw ==
    \/ \E p \in 1..MaxLr, lr \in 1..MaxLr, mom \in 1..MaxMom,
          wd \in 0..MaxWd : MakeBoth(p, lr, mom, wd)
    \/ \E g \in (0 - MaxGrad)..MaxGrad : BothStep(g)

SpecSgdw == InitSgdw /\ [][NextSgdw]_vars

(* ------------------------ adam_step on its own ------------------------ *)
\* parameter values and calls of adam_step
MaxParam == 2
MaxAdamSteps == 3

InitAdam ==
    /\ InitSession
    /\ dls = Data(NTrain, NValid, 2)
    /\ plan = NoPlan
    /\ maxFits = 0

\* the first call: adam_step(p, g, lr, wd, mom, sqr_mom, eps) with mom,
\* sqr_mom and eps zero, so that every quotient and root is whole
FirstAdamStep(p, g, lr, wd) ==
    /\ ~adam.called
    /\ adam' = AdamStep(p, g, lr, wd, 0, 0, 0, <<>>, <<>>, 0)
    /\ LoopUnchanged /\ UNCHANGED <<mloop, mini, metric, optim, sgdw>>

\* a later call, on the caller's parameter and the state the last call
\* returned
NextAdamStep(g, lr, wd) ==
    /\ adam.called /\ adam.step < MaxAdamSteps
    /\ adam' = AdamStep(adam.param, g, lr, wd, 0, 0, 0, adam.grad_avg,
                        adam.sqr_avg, adam.step)
    /\ LoopUnchanged /\ UNCHANGED <<mloop, mini, metric, optim, sgdw>>

NextAdam ==
    \/ \E p \in (0 - MaxParam)..MaxParam,
          g \in ((0 - MaxGrad)..MaxGrad) \ {0}, lr \in 1..MaxLr,
          wd \in 0..MaxWd : FirstAdamStep(p, g, lr, wd)
    \/ \E g \in ((0 - MaxGrad)..MaxGrad) \ {0}, lr \in 1..MaxLr,
          wd \in 0..MaxWd : NextAdamStep(g, lr, wd)

SpecAdam == InitAdam /\ [][NextAdam]_vars

(* --------------------- MiniAI's fit on its own ------------------------ *)
\* the methods a MiniAI callback can define
MiniPoints ==
    {BeforeEv(x) : x \in {"fit", "epoch", "batch"}}
        \cup {AfterEv(x) : x \in {"fit", "epoch", "batch"}}
        \cup Range(MiniOps)

\* the user callback raises one of MiniAI's cancel signals or an error in
\* one of its methods, whenever that method is called in the given pass
MiniPlans ==
    {NoPlan}
        \cup [ev : MiniPoints, kind : {"fit", "epoch", "batch", "error"},
              phase : {"any", "train", "valid"}, nth : {0},
              onCancel : {"none"}]

InitMini ==
    /\ InitSession
    /\ dls = Data(NTrain, NValid, 2)
    /\ plan \in MiniPlans
    /\ maxFits = 0

MiniTop == mloop.stack[Len(mloop.stack)]
MiniInBody(nm) ==
    /\ mloop.status = "fitting" /\ mloop.stack # <<>>
    /\ MiniTop.nm = nm /\ MiniTop.pc = "body"
MiniUnchanged == LoopUnchanged /\ UNCHANGED <<mini, metric, optim, sgdw, adam>>

\* fit(n_epochs): self.n_epochs = n_epochs; with self.callback_ctx('fit')
MiniFit(n) ==
    /\ mloop.status = "idle"
    /\ mloop' = MiniEnter([MLoop0 EXCEPT !.status = "fitting",
                                         !.n_epochs = n], "fit")
    /\ MiniUnchanged

\* for self.epoch in self.epochs: self.one_epoch(True); self.one_epoch(False)
\* and the first statements of one_epoch: self.model.train(train), self.dl,
\* with self.callback_ctx('epoch'). i: the passes started
MiniFitBody ==
    /\ MiniInBody("fit")
    /\ mloop' =
          IF MiniTop.i < 2 * mloop.n_epochs
          THEN MiniEnter([mloop EXCEPT !.epoch = MiniTop.i \div 2,
                                       !.train = (MiniTop.i % 2 = 0),
                                       !.stack[Len(mloop.stack)].i = @ + 1],
                         "epoch")
          ELSE [mloop EXCEPT !.stack[Len(mloop.stack)].pc = "after"]
    /\ MiniUnchanged

\* for self.iter, self.batch in enumerate(self.dl):
\* with self.callback_ctx('batch')
MiniOneEpoch ==
    /\ MiniInBody("epoch")
    /\ mloop' =
          IF MiniTop.i < (IF mloop.train THEN dls.train ELSE dls.valid)
          THEN MiniEnter([mloop EXCEPT !.stack[Len(mloop.stack)].i = @ + 1],
                         "batch")
          ELSE [mloop EXCEPT !.stack[Len(mloop.stack)].pc = "after"]
    /\ MiniUnchanged

\* self.predict(); self.get_loss(); if self.model.training:
\* self.backward(); self.step(); self.zero_grad()
MiniOneBatch ==
    /\ MiniInBody("batch")
    /\ mloop' =
          IF MiniTop.i < (IF mloop.train THEN Len(MiniOps) ELSE 2)
          THEN LET op == MiniOps[MiniTop.i + 1]
                   e == MiniCallback(mloop, op)
                   M1 == [mloop EXCEPT !.events = MiniLog(mloop, op, e),
                                       !.stack[Len(mloop.stack)].i = @ + 1]
               IN IF e.kind = "none" THEN M1 ELSE MiniRaise(M1, e)
          ELSE [mloop EXCEPT !.stack[Len(mloop.stack)].pc = "after"]
    /\ MiniUnchanged

\* the with statement of the innermost scope ends
MiniLeave ==
    /\ mloop.status = "fitting" /\ mloop.stack # <<>>
    /\ MiniTop.pc = "after"
    /\ mloop' = MiniExit(mloop)
    /\ MiniUnchanged

NextMini ==
    \/ \E n \in 0..MaxEpochs : MiniFit(n)
    \/ MiniFitBody
    \/ MiniOneEpoch
    \/ MiniOneBatch
    \/ MiniLeave

SpecMini == InitMini /\ [][NextMini]_vars

(* ------------------------ reading the trace --------------------------- *)
IsEvent(e) == e.ev \in Events
\* the batches of the data carry targets
HasY == Len(Split(dls.batch, dls.n_inp).yb) > 0
EventNames(tr) ==
    LET es == SelectSeq(tr, IsEvent) IN [k \in 1..Len(es) |-> es[k].ev]
Count(tr, ev) == Cardinality({k \in 1..Len(tr) : tr[k].ev = ev})
NoRaise(tr) == \A k \in 1..Len(tr) : tr[k].exc = "none"

RECURSIVE Repeat(_, _)
Repeat(s, n) == IF n = 0 THEN <<>> ELSE s \o Repeat(s, n - 1)

\* the nesting of the phases: the phases that enclose x
Encl(x) ==
    CASE x = "fit" -> {}
      [] x = "epoch" -> {"fit"}
      [] x \in {"train", "validate"} -> {"epoch", "fit"}
      [] x = "batch" -> {"train", "validate", "epoch", "fit"}
      [] OTHER -> {"batch", "train", "validate", "epoch", "fit"}

\* entry k of the trace lies inside the try block of an open scope for
\* phase x: a before_x was dispatched at or before k and neither that
\* scope nor one that encloses it has reached its after_cancel/after since
OpenAt(x, k) ==
    \E j \in 1..k :
        /\ trace[j].ev = BeforeEv(x)
        /\ \A m \in (j + 1)..k :
              \A y \in Encl(x) \cup {x} :
                  trace[m].ev \notin {AfterEv(y), AfterCancelEv(y)}

(* ------------------------------ claims -------------------------------- *)
TrainBatchEvents ==
    <<"before_batch", "after_pred", "after_loss", "before_backward",
      "after_backward", "before_step", "after_step", "after_batch">>
ValidBatchEvents ==
    <<"before_batch", "after_pred", "after_loss", "after_batch">>
EpochEvents(T, V) ==
    <<"before_epoch", "before_train">> \o Repeat(TrainBatchEvents, T)
        \o <<"after_train", "before_validate">> \o Repeat(ValidBatchEvents, V)
        \o <<"after_validate", "after_epoch">>
FitEvents(E, T, V) ==
    <<"before_fit">> \o Repeat(EpochEvents(T, V), E) \o <<"after_fit">>

\* C1: a fit of E epochs over T train and V validate batches with targets,
\* TrainEvalCallback registered and nothing raising, dispatches exactly
\* before_fit, E times (before_epoch, before_train, T train batches of eight
\* events, after_train, before_validate, V validate batches of four events,
\* after_validate, after_epoch), after_fit, and no after_cancel event.
C1_EventSequence ==
    (status = "returned" /\ NoRaise(trace) /\ HasY /\ "tec" \in Range(cbs))
        => EventNames(trace) = FitEvents(learn.n_epoch, dls.train, dls.valid)

C1_Witness ==
    /\ status = "returned" /\ NoRaise(trace) /\ HasY
    /\ learn.n_epoch = MaxEpochs
    /\ Count(trace, "after_batch") = MaxEpochs * (NTrain + NValid)

\* the signal of phase x is raised at entry k inside that phase's try block
RaisedInScope(k, x) == trace[k].exc = x /\ OpenAt(x, k)
Has(k) == k <= Len(trace)
Done(k) == Has(k) /\ trace[k].exc = "none"

\* C3: when the cancel signal of phase X is raised by the body or by a
\* before_X handler, the very next dispatch is after_cancel_X, then (that
\* dispatch completing) after_X, then final (_end_cleanup for fit), and the
\* signal does not leave the scope; after_cancel_X is dispatched only right
\* after that signal, and after_X never directly after a raise.
C3_ScopedPhase ==
    \A k \in 1..Len(trace) : \A x \in Scopes :
        /\ RaisedInScope(k, x) =>
              /\ ~(status = "raised" /\ k = Len(trace))
              /\ Has(k + 1) => trace[k + 1].ev = AfterCancelEv(x)
              /\ (Done(k + 1) /\ Has(k + 2)) => trace[k + 2].ev = AfterEv(x)
        /\ trace[k].ev = AfterCancelEv(x) => (k > 1 /\ trace[k - 1].exc = x)
        /\ trace[k].ev = AfterEv(x) => (k > 1 /\ trace[k - 1].exc = "none")
        /\ (trace[k].ev = "after_fit" /\ Done(k)) =>
              /\ Len(trace) = k + 1
              /\ trace[k + 1].ev = "_end_cleanup"
              /\ status = "returned"

C3_Witness ==
    \E k \in 1..Len(trace) : \E x \in Scopes \ {"fit"} :
        /\ RaisedInScope(k, x)
        /\ trace[k].ev \in Ops
        /\ Done(k + 1) /\ Done(k + 2) /\ Has(k + 3)
        /\ status = "returned"

\* C4 as stated: no cancellation signal ever leaves fit().
C4_NeverPropagates == ~(status = "raised" /\ exc.kind \in Scopes)

\* C4 amended: a cancellation signal of phase X is caught, and does not
\* leave fit(), exactly when it is raised inside the try block of an open
\* X scope (its before_X dispatch or its body); raised anywhere else (by an
\* after_X or after_cancel_X handler, or outside phase X) it leaves fit().
C4_CaughtIffInScope ==
    \A k \in 1..Len(trace) :
        trace[k].exc \in Scopes =>
            IF OpenAt(trace[k].exc, k)
            THEN /\ ~(status = "raised" /\ k = Len(trace))
                 /\ Has(k + 1) => trace[k + 1].ev = AfterCancelEv(trace[k].exc)
            ELSE /\ k = Len(trace)
                 /\ status = "raised"
                 /\ exc.kind = trace[k].exc

C4_Witness ==
    /\ status = "returned"
    /\ \E k \in 1..Len(trace) :
          trace[k].ev = "after_loss" /\ trace[k].exc \in Scopes
    /\ Count(trace, "after_fit") = 1

\* the phase (before_train or before_validate) entry k belongs to
PhaseStart(k) ==
    LET S == {j \in 1..k : trace[j].ev \in {"before_train", "before_validate"}}
    IN IF S = {} THEN 0 ELSE CHOOSE j \in S : \A i \in S : i <= j
BatchesStarted(k) ==
    Cardinality({j \in (PhaseStart(k) + 1)..k : trace[j].ev = "before_batch"})
PhaseLen(k) ==
    IF trace[PhaseStart(k)].ev = "before_train" THEN dls.train ELSE dls.valid
PhaseEnd(k) ==
    IF trace[PhaseStart(k)].ev = "before_train"
    THEN "after_train" ELSE "after_validate"

\* C5: a CancelBatch signal raised inside a batch aborts only that batch:
\* after_cancel_batch and after_batch follow, then the before_batch of the
\* next batch of the phase (or the phase's after event when it was the
\* last), and a phase that ends without its own cancel has started every
\* batch of its loader.
C5_CancelBatch ==
    /\ \A k \in 1..Len(trace) :
          RaisedInScope(k, "batch") =>
              /\ Has(k + 1) => trace[k + 1].ev = "after_cancel_batch"
              /\ (Done(k + 1) /\ Has(k + 2)) => trace[k + 2].ev = "after_batch"
              /\ (Done(k + 1) /\ Done(k + 2) /\ Has(k + 3)) =>
                    trace[k + 3].ev =
                        IF BatchesStarted(k) < PhaseLen(k)
                        THEN "before_batch" ELSE PhaseEnd(k)
    /\ \A m \in 2..Len(trace) :
          /\ (trace[m].ev = "after_train"
                /\ trace[m - 1].ev # "after_cancel_train")
                => BatchesStarted(m) = dls.train
          /\ (trace[m].ev = "after_validate"
                /\ trace[m - 1].ev # "after_cancel_validate")
                => BatchesStarted(m) = dls.valid

C5_Witness ==
    /\ status = "returned"
    /\ \E k \in 1..Len(trace) :
          /\ RaisedInScope(k, "batch")
          /\ trace[k].ev = "after_pred"
          /\ BatchesStarted(k) = 1
          /\ trace[k + 3].ev = "before_batch"
    /\ Count(trace, "before_batch") = learn.n_epoch * (NTrain + NValid)

\* C6: a CancelEpoch signal raised inside epoch e is followed at once by
\* after_cancel_epoch and after_epoch (no further batch, no validate phase
\* of that epoch), then by before_epoch of epoch e+1 when e+1 < n_epoch and
\* by after_fit otherwise; after_fit is dispatched at most once and is the
\* last event of a fit that returns.
C6_CancelEpoch ==
    /\ \A k \in 1..Len(trace) :
          RaisedInScope(k, "epoch") =>
              /\ Has(k + 1) => trace[k + 1].ev = "after_cancel_epoch"
              /\ (Done(k + 1) /\ Has(k + 2)) => trace[k + 2].ev = "after_epoch"
              /\ (Done(k + 1) /\ Done(k + 2) /\ Has(k + 3)) =>
                    trace[k + 3].ev =
                        IF Count(SubSeq(trace, 1, k), "before_epoch")
                              < learn.n_epoch
                        THEN "before_epoch" ELSE "after_fit"
    /\ Count(trace, "after_fit") <= 1
    /\ status = "returned" =>
          /\ Count(trace, "after_fit") = 1
          /\ Last(EventNames(trace)) = "after_fit"

C6_Witness ==
    /\ status = "returned"
    /\ learn.n_epoch = 2
    /\ \E k \in 1..Len(trace) :
          /\ RaisedInScope(k, "epoch")
          /\ trace[k].ev = "after_pred"
          /\ trace[PhaseStart(k)].ev = "before_train"
          /\ Count(SubSeq(trace, 1, k), "before_epoch") = 1
          /\ trace[k + 3].ev = "before_epoch"
    /\ Count(trace, "before_validate") = 1

FitClosing == {"after_cancel_fit", "after_fit", "_end_cleanup"}

\* C7 as stated: once CancelFit has been raised, by whatever handler or
\* body step, fit() does not end by raising.
C7_AlwaysReturns ==
    (\E k \in 1..Len(trace) : trace[k].exc = "fit") => status # "raised"

\* C7 amended: a CancelFit signal raised by the body or by a handler of any
\* event other than after_cancel_fit and after_fit starts no further epoch
\* or batch work: after_cancel_fit and after_fit follow, each once, and when
\* both dispatches complete _end_cleanup runs once and fit returns. Raised
\* by an after_cancel_fit or after_fit handler it leaves fit() and
\* _end_cleanup does not run.
C7_CancelFit ==
    \A k \in 1..Len(trace) :
        trace[k].exc = "fit" =>
            IF trace[k].ev \notin {"after_cancel_fit", "after_fit"}
            THEN /\ ~(status = "raised" /\ k = Len(trace))
                 /\ \A m \in (k + 1)..Len(trace) : trace[m].ev \in FitClosing
                 /\ Has(k + 1) => trace[k + 1].ev = "after_cancel_fit"
                 /\ (Done(k + 1) /\ Has(k + 2)) => trace[k + 2].ev = "after_fit"
                 /\ (Done(k + 1) /\ Done(k + 2)) =>
                       /\ Len(trace) = k + 3
                       /\ trace[k + 3].ev = "_end_cleanup"
                       /\ status = "returned"
                 /\ Count(trace, "after_fit") <= 1
            ELSE /\ k = Len(trace)
                 /\ status = "raised"
                 /\ exc.kind = "fit"
                 /\ Count(trace, "_end_cleanup") = 0

C7_Witness ==
    /\ status = "returned"
    /\ \E k \in 1..Len(trace) :
          /\ trace[k].exc = "fit"
          /\ trace[k].ev = "before_step"
          /\ Len(trace) = k + 3
    /\ learn.n_epoch = 2
    /\ Count(trace, "before_epoch") = 1

\* the callback of scenario B: CancelTrain on the first before_batch of
\* every train phase
ScenarioB ==
    plan = [ev |-> "before_batch", kind |-> "train", phase |-> "train",
            nth |-> 0, onCancel |-> "none"]

\* C8: with that callback no train batch reaches after_batch and the
\* Recorder accumulates no train batch, every train phase still dispatches
\* after_cancel_train and after_train, and the validate phase of every
\* epoch runs and records every validate batch.
C8_CancelTrain ==
    ScenarioB =>
        /\ status # "raised"
        /\ recorder.nTrain = 0
        /\ \A m \in 1..Len(trace) :
              trace[m].ev = "after_batch"
                  => trace[PhaseStart(m)].ev = "before_validate"
        /\ status = "returned" =>
              /\ Count(trace, "after_cancel_train") = learn.n_epoch
              /\ Count(trace, "after_train") = learn.n_epoch
              /\ Count(trace, "before_validate") = learn.n_epoch
              /\ Count(trace, "after_batch") = learn.n_epoch * dls.valid
              /\ recorder.nValid = learn.n_epoch * dls.valid

C8_Witness ==
    /\ ScenarioB
    /\ status = "returned"
    /\ learn.n_epoch = 2
    /\ recorder.nValid = 2 * NValid
    /\ Count(trace, "after_cancel_train") = 2

Before(i, j) ==
    \/ Order(cbs[i]) < Order(cbs[j])
    \/ Order(cbs[i]) = Order(cbs[j]) /\ i < j
Rank(q) == 1 + Cardinality({j \in 1..Len(cbs) : Before(j, q)})
ExpectedDispatch ==
    [i \in 1..Len(cbs) |-> cbs[CHOOSE q \in 1..Len(cbs) : Rank(q) = i]]

C2_DispatchOrder ==
    \A k \in 1..Len(trace) :
        IsEvent(trace[k]) =>
            /\ Len(trace[k].asked) <= Len(cbs)
            /\ trace[k].asked =
                   SubSeq(ExpectedDispatch, 1, Len(trace[k].asked))
            /\ trace[k].exc = "none" => Len(trace[k].asked) = Len(cbs)

\* a full dispatch over three registrations that are not in sorted order
\* and of which two different instances share an order
C2_Witness ==
    /\ Len(cbs) = MaxCbs
    /\ trace # <<>> /\ IsEvent(trace[1]) /\ trace[1].exc = "none"
    /\ Len(trace[1].asked) = MaxCbs
    /\ \E i, j \in 1..Len(cbs) : i < j /\ Order(cbs[i]) > Order(cbs[j])
    /\ \E i, j \in 1..Len(cbs) :
           i < j /\ Order(cbs[i]) = Order(cbs[j]) /\ cbs[i] # cbs[j]

OffCalled(k) == "off" \in Range(trace[k].called)

\* C10 as stated: the callback created with run = False has no handler
\* invoked, in a first fit and in any later fit on the same session
C10_NeverInvoked == \A k \in 1..Len(trace) : ~OffCalled(k)

\* C10: while its run flag is False a callback has no handler invoked for
\* any event, through a whole fit; the dispatcher sets the flag to True
\* when it dispatches after_fit to it, so in a fit that follows a completed
\* fit its handlers are invoked for every event
C10_SkippedWhileRunFalse ==
    /\ ~run["off"] => \A k \in 1..Len(trace) : ~OffCalled(k)
    /\ fits <= 1 => \A k \in 1..Len(trace) : ~OffCalled(k)
    /\ (plan = NoPlan /\ fits > 1) =>
           \A k \in 1..Len(trace) : IsEvent(trace[k]) => OffCalled(k)

\* a second fit has returned and the callback received its after_fit
C10_Witness ==
    /\ fits = MaxFits /\ status = "returned" /\ plan = NoPlan
    /\ Count(trace, "after_batch") > 0
    /\ OffCalled(Len(trace) - 1)

\* the phase (train or validate) whose before event was the last one
\* dispatched at or before entry k, "none" if there is none
PhaseAt(k) ==
    LET js == {j \in 1..k : trace[j].ev \in {"before_train", "before_validate"}}
    IN IF js = {} THEN "none"
       ELSE LET j == CHOOSE i \in js : \A m \in js : m <= i
            IN IF trace[j].ev = "before_train" THEN "train" ELSE "validate"

TecCalled(k) == "tec" \in Range(trace[k].called)

\* the dispatch at entry k of the trace reaches TrainEvalCallback's handler
\* unless it is an inner-loop event outside a train phase
TecGated(k) ==
    (IsEvent(trace[k]) /\ "tec" \in Range(trace[k].asked)) =>
        IF trace[k].ev \notin _inner_loop THEN TecCalled(k)
        ELSE TecCalled(k) <=> PhaseAt(k) = "train"

\* C11: the callback with run = True, run_train = True, run_valid = False
\* (TrainEvalCallback) has its handler invoked for every event that is not
\* an inner-loop event, for every inner-loop event of a train phase, and
\* for no inner-loop event of a validate phase: so it is at every dispatch
\* a step adds to the trace
C11_RunValidFalse ==
    [][\A k \in Len(trace) + 1..Len(trace') : TecGated(k)']_vars

\* a fit of several epochs has returned; after_batch reached the callback
\* in a train phase and skipped it in a validate phase
C11_Witness ==
    /\ status = "returned" /\ NoRaise(trace) /\ learn.n_epoch > 1
    /\ \E k \in 1..Len(trace) :
           trace[k].ev = "after_batch" /\ TecCalled(k) /\ PhaseAt(k) = "train"
    /\ \E k \in 1..Len(trace) :
           /\ trace[k].ev = "after_batch" /\ ~TecCalled(k)
           /\ PhaseAt(k) = "validate"
    /\ TecCalled(Len(trace) - 1) /\ trace[Len(trace) - 1].ev = "after_fit"

\* the trace is that of a whole fit() call that returned
WholeFit ==
    /\ status = "returned" /\ trace # <<>>
    /\ trace[1].ev = "before_fit" /\ Last(trace).ev = "_end_cleanup"

\* after_batch calls that reached the user callback with default flags
AfterBatchCalls ==
    Cardinality({k \in 1..Len(trace) :
                    /\ trace[k].ev = "after_batch"
                    /\ "usr" \in Range(trace[k].called)})

\* C12: after a fit of E epochs over T train and V validate batches in
\* which nothing was cancelled or raised, a callback with default flags has
\* had after_batch called E * (T + V) times, and the Recorder has counted
\* as many batches
C12_AfterBatchCount ==
    (WholeFit /\ NoRaise(trace)) =>
        /\ AfterBatchCalls = learn.n_epoch * (dls.train + dls.valid)
        /\ recorder.nTrain + recorder.nValid
               = learn.n_epoch * (dls.train + dls.valid)

\* 2 epochs, 3 train batches, 2 validate batches: 10 calls
C12_Witness ==
    /\ WholeFit /\ NoRaise(trace)
    /\ learn.n_epoch = 2 /\ dls.train = 3 /\ dls.valid = 2
    /\ AfterBatchCalls = 10

\* the callbacks called at entry k read the value e of `training`: all of
\* them (a read before the flag was ever set is let through), or, at
\* before_train and before_validate, those ordered after TrainEvalCallback
ReadsAt(k, e, all) ==
    IsEvent(trace[k]) =>
        \E x \in {e} :
            \/ x = "any"
            \/ \A i \in 1..Len(trace[k].seen) :
                  IF all THEN trace[k].seen[i] \in {x, "unset"}
                  ELSE (\/ trace[k].ev \notin {"before_train", "before_validate"}
                        \/ Order(trace[k].asked[i]) > TrainEvalOrder)
                           => trace[k].seen[i] = x

\* what `training` is meant to read once entry k is over: "yes" from the
\* dispatch of before_train until that of after_train is over, "no" likewise
\* for validate, "any" elsewhere (an epoch or fit scope that is left by a
\* cancel ends the subtree)
RECURSIVE ExpectedAfter(_)
ExpectedAfter(k) ==
    IF k = 0 THEN "any"
    ELSE CASE trace[k].ev = "before_train" -> "yes"
           [] trace[k].ev = "before_validate" -> "no"
           [] trace[k].ev \in {"after_train", "after_validate",
                               "after_cancel_epoch", "after_epoch",
                               "after_cancel_fit", "after_fit",
                               "_end_cleanup"} -> "any"
           [] OTHER -> ExpectedAfter(k - 1)

\* what it is meant to read at entry k: the dispatch of after_train
\* (after_validate) is still inside the subtree
Expected(k) ==
    IF trace[k].ev \in {"after_train", "after_validate"}
    THEN ExpectedAfter(k - 1) ELSE ExpectedAfter(k)

UnknownDispatched ==
    trace' # trace /\ trace' # <<>> /\ Last(trace').ev = UnknownEvent

\* C14: dispatching a name that is no event raises an ordinary exception
\* with no callback called; it changes neither the Learner nor the
\* callbacks nor their list; raised from a handler inside a fit it is
\* caught by no phase scope: nothing is dispatched after it and fit() ends
\* with that exception
C14_UnknownEvent ==
    /\ [](\A k \in 1..Len(trace) :
            trace[k].ev = UnknownEvent =>
                /\ trace[k].asked = <<>> /\ trace[k].called = <<>>
                /\ trace[k].exc = "error"
                /\ exc = [kind |-> "error", cls |-> "none",
                          ev |-> UnknownEvent])
    /\ [][UnknownDispatched =>
            UNCHANGED <<cbs, cblearn, attrs, run, learn, recorder, other,
                        shadow, stack, status>>]_vars
    /\ [](\A k \in 1..Len(trace) :
            (plan.kind = "missing" /\ IsEvent(trace[k])
                /\ trace[k].exc # "none") =>
                /\ k = Len(trace) /\ trace[k].exc = "error"
                /\ Last(trace[k].called) = "usr"
                /\ status = "raised" /\ stack = <<>>
                /\ exc = [kind |-> "error", cls |-> ClassOf("usr"),
                          ev |-> trace[k].ev])

\* a handler dispatched the unknown name inside a batch of a fit, and the
\* fit ended there with the exception
C14_Witness ==
    /\ plan.kind = "missing" /\ status = "raised" /\ exc.kind = "error"
    /\ trace # <<>> /\ Last(trace).ev = "after_pred"
    /\ OpenAt("batch", Len(trace))

\* C15: a step of add_cb(c) leaves c as the last element of the callback
\* list, with its back-reference on this Learner and the Learner attribute
\* of its name referring to it; the callbacks registered before stay in
\* front of it in the same order
C15_AddAppends ==
    [][Len(cbs') > Len(cbs) =>
          \E c \in CbPool :
              /\ cbs' = Append(cbs, c)
              /\ cblearn'[c] = "learner"
              /\ attrs'[NameOf(c)] = c
              /\ \A d \in CbPool \ {c} : cblearn'[d] = cblearn[d]
              /\ \A n \in Names \ {NameOf(c)} : attrs'[n] = attrs[n]]_vars

\* a callback was added behind two others, in front of which it sorts
C15_Witness ==
    /\ Len(cbs) = MaxCbs /\ trace = <<>>
    /\ Last(cbs) = "tec" /\ cbs[1] # "tec"
    /\ cblearn["tec"] = "learner" /\ attrs["train_eval"] = "tec"

\* how often c occurs in the sequence s
Occurrences(s, c) == Cardinality({i \in 1..Len(s) : s[i] = c})

\* C16: two instances of one class registered on the Learner are both in
\* the list and are both called at every dispatch (their handlers run when
\* their run flag is set); a step of remove_cb(type) leaves no instance of
\* the class in the list, keeps the rest in order, and clears the
\* back-reference of every instance it removed
C16_TwoInstancesOneType ==
    /\ [](\A k \in 1..Len(trace) :
            (IsEvent(trace[k]) /\ trace[k].exc = "none") =>
                \A c \in Range(cbs) :
                    /\ c \in Range(trace[k].asked)
                    /\ (ClassOf(c) = "UserCallback" /\ run[c]
                            /\ trace[k].ev # "after_fit")
                           => c \in Range(trace[k].called))
    /\ [][\A cls \in RegClasses :
            RemoveCbType(cls) =>
                /\ \A c \in Range(cbs') : ClassOf(c) # cls
                /\ cbs' = SelectSeq(cbs, LAMBDA c : ClassOf(c) # cls)
                /\ \A c \in Range(cbs) :
                       ClassOf(c) = cls => cblearn'[c] = "none"]_vars

\* both instances of the user callback class are registered and the
\* handlers of both ran at one dispatch
C16_Witness ==
    /\ "usr" \in Range(cbs) /\ "off" \in Range(cbs)
    /\ trace # <<>> /\ IsEvent(trace[1]) /\ trace[1].exc = "none"
    /\ "usr" \in Range(trace[1].called) /\ "off" \in Range(trace[1].called)

\* C17 as stated: after remove_cb(c) the instance c occurs nowhere in the
\* callback list
C17_NoLongerRegistered ==
    [][\A c \in RegPool : RemoveCb(c) => c \notin Range(cbs')]_vars

\* C17: a step of remove_cb(c) removes the first occurrence of c from the
\* list (none if c is not in it), keeps every other entry in order, clears
\* c's back-reference and the Learner attribute of its name; c is out of
\* the list afterwards when it was registered at most once; and a dispatch
\* calls only callbacks that are in the list
C17_RemoveFirstOccurrence ==
    /\ [][\A c \in RegPool :
            RemoveCb(c) =>
                /\ cblearn'[c] = "none" /\ attrs'[NameOf(c)] = "none"
                /\ \A d \in CbPool \ {c} : cblearn'[d] = cblearn[d]
                /\ c \notin Range(cbs) => cbs' = cbs
                /\ c \in Range(cbs) =>
                       \E i \in 1..Len(cbs) :
                           /\ cbs[i] = c
                           /\ \A j \in 1..(i - 1) : cbs[j] # c
                           /\ cbs' = SubSeq(cbs, 1, i - 1)
                                         \o SubSeq(cbs, i + 1, Len(cbs))
                /\ Occurrences(cbs, c) <= 1 => c \notin Range(cbs')]_vars
    /\ [](\A k \in 1..Len(trace) :
            Range(trace[k].asked) \subseteq Range(cbs))

\* an instance registered twice was removed once: it is still in the list,
\* behind another callback, with its back-reference cleared
C17_Witness ==
    \E c \in RegPool :
        /\ Len(cbs) > 1 /\ Last(cbs) = c /\ cbs[1] # c
        /\ cblearn[c] = "none" /\ attrs[NameOf(c)] = "none"
        /\ trace = <<>>

\* C19 as stated: removing an instance that is not registered, and adding
\* one that is, raise an error and change nothing
C19_MisuseRaises ==
    [][\A c \in RegPool :
          (\/ RemoveCb(c) /\ c \notin Range(cbs)
           \/ AddCb(c) /\ c \in Range(cbs)) =>
              /\ exc'.kind = "error"
              /\ UNCHANGED <<cbs, attrs, cblearn>>]_vars

\* C19: neither misuse raises. remove_cb of an instance that is not in the
\* list leaves the list alone but clears the instance's back-reference and
\* the Learner attribute of its name; add_cb of an instance that is in the
\* list appends it again, and every dispatch then calls it once per
\* occurrence
C19_MisuseIsSilent ==
    /\ [][\A c \in RegPool :
            /\ (RemoveCb(c) /\ c \notin Range(cbs)) =>
                   /\ exc' = exc /\ cbs' = cbs
                   /\ cblearn'[c] = "none" /\ attrs'[NameOf(c)] = "none"
            /\ (AddCb(c) /\ c \in Range(cbs)) =>
                   /\ exc' = exc /\ cbs' = Append(cbs, c)
                   /\ Occurrences(cbs', c) = Occurrences(cbs, c) + 1]_vars
    /\ [](\A k \in 1..Len(trace) :
            (IsEvent(trace[k]) /\ trace[k].exc = "none") =>
                \A c \in RegPool :
                    Occurrences(trace[k].asked, c) = Occurrences(cbs, c))

\* one instance is registered twice and was called twice at one dispatch
C19_Witness ==
    \E c \in RegPool :
        /\ Occurrences(cbs, c) = 2
        /\ trace # <<>> /\ IsEvent(trace[1]) /\ trace[1].exc = "none"
        /\ Occurrences(trace[1].called, c) = 2

\* C18 as stated: an instance is in the list of at most one Learner, and
\* every instance in a Learner's list has its back-reference on that Learner
C18_ExclusiveOwnership ==
    \A c \in CbPool :
        /\ ~(c \in Range(cbs) /\ c \in Range(other.cbs))
        /\ c \in Range(cbs) => cblearn[c] = "learner"
        /\ c \in Range(other.cbs) => cblearn[c] = "other"

\* C18: a callback has one back-reference, and the Learner it names has the
\* callback in its list; the converse does not hold, since add_cb does not
\* take the callback out of a list it is in already
C18_BackRefIsRegistered ==
    \A c \in CbPool :
        /\ cblearn[c] \in {"none", "learner", "other"}
        /\ cblearn[c] = "learner" => c \in Range(cbs)
        /\ cblearn[c] = "other" => c \in Range(other.cbs)

\* one instance is in the lists of both Learners; its back-reference names
\* the second, which added it last
C18_Witness ==
    /\ "usr" \in Range(cbs) /\ "usr" \in Range(other.cbs)
    /\ cblearn["usr"] = "other"
    /\ "tec" \in Range(cbs) /\ cblearn["tec"] = "learner"

\* C20: setting `training` on a callback stores the value on that callback
\* only, leaves the Learner's attribute alone and warns when the callback
\* is registered and the Learner has the attribute; afterwards the callback
\* reads its own value. A write through self.learn (TrainEvalCallback's
\* before_train / before_validate) changes the Learner's attribute, which
\* every registered callback without a value of its own reads from then on
C20_ShadowingWrite ==
    /\ [][\A c \in AttrPool, v \in {"yes", "no"} :
            CbSetTraining(c, v) =>
                /\ learn' = learn
                /\ shadow'[c] = v
                /\ \A d \in CbPool \ {c} : shadow'[d] = shadow[d]
                /\ (cblearn[c] = "learner" /\ learn.training # "unset")
                       => warned']_vars
    /\ [](\A k \in 1..Len(trace) :
            \A i \in 1..Len(trace[k].asked) :
                LET c == trace[k].asked[i]
                IN /\ shadow[c] # "unset" => trace[k].seen[i] = shadow[c]
                   /\ (/\ shadow[c] = "unset" /\ cblearn[c] = "learner"
                       /\ \/ trace[k].ev \notin {"before_train",
                                                 "before_validate"}
                          \/ Order(c) > TrainEvalOrder)
                          => trace[k].seen[i] = learn.training)
    /\ [](\A k \in 1..Len(trace) :
            "tec" \in Range(trace[k].called) =>
                /\ trace[k].ev = "before_train" => learn.training = "yes"
                /\ trace[k].ev = "before_validate" => learn.training = "no")

\* TrainEvalCallback wrote training = False through self.learn; the user
\* callback had set its own value, with a warning, and reads that one while
\* the other callbacks read the Learner's
C20_Witness ==
    /\ warned /\ shadow["usr"] = "yes" /\ learn.training = "no"
    /\ trace # <<>> /\ trace[1].ev = "before_validate"
    /\ \E i, j \in 1..Len(trace[1].asked) :
          /\ trace[1].asked[i] = "usr" /\ trace[1].seen[i] = "yes"
          /\ trace[1].asked[j] = "rec" /\ trace[1].seen[j] = "no"

\* the number of entries for event ev among the first k entries of tr
CountUpTo(tr, k, ev) == Cardinality({j \in 1..k : tr[j].ev = ev})

\* the before_batch dispatches of the running phase before entry k of tr:
\* those after the last before_train or before_validate
BatchesBefore(tr, k) ==
    Cardinality({j \in 1..(k - 1) :
        /\ tr[j].ev = "before_batch"
        /\ \A m \in (j + 1)..(k - 1) :
              tr[m].ev \notin {"before_train", "before_validate"}})

\* C21: at every before_epoch dispatch the session's epoch is the number of
\* epoch scopes opened before it in this fit (0, 1, ... in increasing order,
\* one per epoch scope, n_epoch of them when no signal ends the fit early),
\* and at every before_batch dispatch the session's iter is the zero-based
\* position of the batch in the loader of the running phase
C21_SessionCounters ==
    /\ [][\A k \in Len(trace) + 1..Len(trace') :
            /\ trace'[k].ev = "before_epoch" =>
                  /\ learn'.epoch = CountUpTo(trace', k - 1, "before_epoch")
                  /\ learn'.epoch < learn'.n_epoch
            /\ trace'[k].ev = "before_batch" =>
                  /\ learn'.iter = BatchesBefore(trace', k)
                  /\ learn'.iter < learn'.n_iter]_vars
    /\ []((status = "returned" /\ Count(trace, "after_cancel_fit") = 0)
             => Count(trace, "before_epoch") = learn.n_epoch)

\* a fit of several epochs has returned although a batch of the second
\* epoch was cancelled; the counters stand at the last epoch and last batch
C21_Witness ==
    /\ status = "returned" /\ learn.n_epoch = MaxEpochs
    /\ Count(trace, "after_cancel_batch") > 0
    /\ learn.epoch = MaxEpochs - 1
    /\ learn.iter = NValid - 1 /\ learn.iter > 0

\* the events and body steps of the second half of _do_one_batch
TrainingOnly ==
    {"before_backward", "after_cancel_backward", "after_backward",
     "before_step", "after_cancel_step", "after_step",
     "backward", "opt_step", "zero_grad"}

\* entry k of tr directly follows the entry for ev, which raised nothing
Follows(tr, k, ev) == k > 1 /\ tr[k - 1].ev = ev /\ tr[k - 1].exc = "none"

\* C22: in a batch processed while the session is not training or whose
\* targets are empty, after_pred and after_loss are dispatched (after_loss
\* right after after_pred when there are no targets) and after_batch comes
\* next: no backward or step event is dispatched and backward, the
\* optimizer step and zero_grad do not run; without targets loss_func is
\* not called and no step of a batch changes the loss
C22_NoBackwardNoStep ==
    [][\A k \in Len(trace) + 1..Len(trace') :
          /\ trace'[k].ev \in TrainingOnly =>
                (HasY /\ learn.training = "yes")
          /\ trace'[k].ev = "loss_func" => HasY
          /\ Follows(trace', k, "model") => trace'[k].ev = "after_pred"
          /\ (Follows(trace', k, "after_pred") /\ ~HasY) =>
                trace'[k].ev = "after_loss"
          /\ (Follows(trace', k, "loss_func")) => trace'[k].ev = "after_loss"
          /\ (/\ Follows(trace', k, "after_loss")
              /\ ~(HasY /\ learn.training = "yes")) =>
                trace'[k].ev = "after_batch"
          /\ (~HasY /\ trace'[k].ev # "before_fit") =>
                learn'.loss = learn.loss]_vars

\* a fit over data without targets has returned: every batch of both
\* phases went from after_pred to after_loss to after_batch, and the loss
\* is still the one before_fit left
C22_Witness ==
    /\ status = "returned" /\ NoRaise(trace) /\ ~HasY
    /\ learn.n_epoch = MaxEpochs /\ learn.loss = "zero"
    /\ Count(trace, "after_loss") = MaxEpochs * (NTrain + NValid)
    /\ Count(trace, "after_batch") = MaxEpochs * (NTrain + NValid)
    /\ Count(trace, "after_pred") = MaxEpochs * (NTrain + NValid)
    /\ Count(trace, "zero_grad") = 0

\* the first i elements of b (all of them when i > len(b)), and the others
FirstOf(b, i) == [k \in 1..(IF i > Len(b) THEN Len(b) ELSE i) |-> b[k]]
RestOf(b, i) == [k \in 1..(Len(b) - Len(FirstOf(b, i))) |->
                   b[Len(FirstOf(b, i)) + k]]

\* C23: once a batch b of n >= 1 elements has been split, with no input
\* count configured the inputs are the first n - 1 elements and the targets
\* the last one, except that for n = 1 the inputs are all of b and the
\* targets are empty; with an input count i configured the inputs are the
\* first i elements and the targets the others; in every case the inputs
\* followed by the targets are b
C23_BatchSplit ==
    Count(trace, "before_batch") > 0 =>
        LET b == dls.batch
            n == Len(dls.batch)
        IN /\ learn.xb \o learn.yb = b
           /\ (dls.n_inp = <<>> /\ n = 1) =>
                 (learn.xb = b /\ learn.yb = <<>>)
           /\ (dls.n_inp = <<>> /\ n > 1) =>
                 (learn.xb = FirstOf(b, n - 1) /\ learn.yb = <<b[n]>>)
           /\ dls.n_inp # <<>> =>
                 /\ learn.xb = FirstOf(b, dls.n_inp[1])
                 /\ learn.yb = RestOf(b, dls.n_inp[1])

\* a batch of one element was split with no input count configured, and
\* the fit over it has returned
C23_Witness ==
    /\ status = "returned" /\ Count(trace, "before_batch") > 0
    /\ dls.n_inp = <<>> /\ Len(dls.batch) = 1
    /\ learn.xb = dls.batch /\ learn.yb = <<>>

\* C24: construction registers the default callbacks first and the
\* caller's after them in the given order, then dispatches after_create
\* once, to every registered callback in sorted order; no later step of
\* the session (add_cb, remove_cb, any step of fit) dispatches after_create
C24_AfterCreateOnce ==
    [][/\ \A d \in BOOLEAN, g \in GivenLists :
             Construct(d, g) =>
                /\ cbs' = (IF d THEN DefaultCbs ELSE <<>>) \o g
                /\ Len(trace') = 1
                /\ trace'[1].ev = "after_create"
                /\ trace'[1].asked = SortedByOrder(cbs')
                /\ \A c \in Range(cbs') : cblearn'[c] = "learner"
       /\ status # "new" =>
             \A k \in 1..Len(trace') :
                 trace'[k].ev = "after_create" =>
                     (k <= Len(trace) /\ trace[k] = trace'[k])]_vars

\* Learner(cbs=[usr, early]) has just been constructed: the defaults come
\* first in the list, and after_create went to all four in sorted order
C24_Witness ==
    /\ status = "idle"
    /\ cbs = <<"tec", "rec", "usr", "early">>
    /\ Len(trace) = 1 /\ trace[1].ev = "after_create"
    /\ trace[1].asked = <<"early", "tec", "usr", "rec">>
    /\ trace[1].called = trace[1].asked
    /\ learn.n_epoch = 1

\* the entries of trace' that the step has added: those behind trace when
\* the step appends, all of them when it starts the trace afresh
NewEntries ==
    IF /\ Len(trace') > Len(trace)
       /\ SubSeq(trace', 1, Len(trace)) = trace
    THEN Len(trace) + 1..Len(trace')
    ELSE 1..Len(trace')

\* the gate as the claim words it: t is what the callback read as
\* `training` ("unset": there is no such attribute)
GateSays(c, ev, t) ==
    \/ ev \notin _inner_loop
    \/ RunTrain(c) /\ t \in {"yes", "unset"}
    \/ RunValid(c) /\ t \in {"no", "unset"}

\* C25: at every dispatch, the handler of a callback that is called is
\* invoked iff its run flag is true and the event is not an inner-loop
\* event, or run_train is true and the session is training, or run_valid is
\* true and the session is not training; without a `training` attribute
\* either flag lets the inner-loop events through
C25_Gating ==
    [][\A k \in NewEntries :
          IsEvent(trace'[k]) =>
             \A i \in 1..Len(trace'[k].asked) :
                LET c == trace'[k].asked[i]
                IN (c \in Range(trace'[k].called)) <=>
                      (run[c] /\ GateSays(c, trace'[k].ev,
                                          trace'[k].seen[i]))]_vars

\* before_batch was dispatched while the session had no `training`
\* attribute: the callbacks with a flag set got it, the one with run_train
\* = False and run_valid = False did not
C25_Witness ==
    /\ Len(trace) = 1 /\ trace[1].ev = "before_batch"
    /\ trace[1].seen = <<"unset", "unset", "unset", "unset">>
    /\ trace[1].asked = <<"tec", "usr", "val", "mute">>
    /\ trace[1].called = <<"tec", "usr", "val">>
    /\ run["mute"]

Raised(tr, k, evs, x) == k > 1 /\ tr[k - 1].ev \in evs /\ tr[k - 1].exc = x

\* C27: the backward pass and the optimizer step are cancelled one without
\* the other. A CancelBackward raised in the backward scope is followed by
\* after_cancel_backward and after_backward, and after_backward by
\* before_step whether or not the backward pass ran, so the optimizer step
\* is still applied; a CancelStep raised in before_step (or by the
\* optimizer) is followed by after_cancel_step, after_step, zero_grad and
\* after_batch, and the number of applied steps changes only when opt_step
\* itself returns
C27_BackwardStepIndependent ==
    [][\A k \in NewEntries :
          /\ Raised(trace', k, {"before_backward", "backward"}, "backward")
                => trace'[k].ev = "after_cancel_backward"
          /\ Follows(trace', k, "after_cancel_backward")
                => trace'[k].ev = "after_backward"
          /\ Follows(trace', k, "after_backward")
                => trace'[k].ev = "before_step"
          /\ Follows(trace', k, "before_step") => trace'[k].ev = "opt_step"
          /\ Raised(trace', k, {"before_step", "opt_step"}, "step")
                => trace'[k].ev = "after_cancel_step"
          /\ Follows(trace', k, "after_cancel_step")
                => trace'[k].ev = "after_step"
          /\ Follows(trace', k, "after_step") => trace'[k].ev = "zero_grad"
          /\ Follows(trace', k, "zero_grad") => trace'[k].ev = "after_batch"
          /\ (trace'[k].ev = "opt_step" /\ trace'[k].exc = "none")
                => learn'.steps = learn.steps + 1
          /\ (trace'[k].ev # "opt_step"
                \/ trace'[k].exc # "none")
                => learn'.steps = learn.steps
          /\ (trace'[k].ev = "zero_grad" /\ trace'[k].exc = "none")
                => ~learn'.grads]_vars

\* a fit has returned in which before_step raised CancelStep in every
\* training batch: no optimizer step was applied, and after_cancel_step,
\* after_step and zero_grad each ran once per training batch
C27_Witness ==
    /\ status = "returned" /\ learn.n_epoch = MaxEpochs
    /\ plan.ev = "before_step" /\ plan.kind = "step" /\ plan.nth = 0
    /\ learn.steps = 0 /\ Count(trace, "opt_step") = 0
    /\ Count(trace, "backward") = MaxEpochs * NTrain
    /\ Count(trace, "after_cancel_step") = MaxEpochs * NTrain
    /\ Count(trace, "after_step") = MaxEpochs * NTrain
    /\ Count(trace, "zero_grad") = MaxEpochs * NTrain
    /\ Count(trace, "after_batch") = MaxEpochs * (NTrain + NValid)

\* a fit has returned in which before_backward raised CancelBackward in
\* every training batch: the backward pass never ran, the optimizer step
\* was applied once per training batch
C27_WitnessBackward ==
    /\ status = "returned" /\ learn.n_epoch = MaxEpochs
    /\ plan.ev = "before_backward" /\ plan.kind = "backward" /\ plan.nth = 0
    /\ Count(trace, "backward") = 0
    /\ Count(trace, "after_backward") = MaxEpochs * NTrain
    /\ learn.steps = MaxEpochs * NTrain


\* C28: train_iter counts the training batches of the running fit: the
\* before_fit dispatch leaves it at 0, an after_batch dispatch of a train
\* phase adds one to it, an after_batch dispatch of a validate phase and
\* every other step leave it alone, and when a fit has returned with nothing
\* raised it is n_epoch * len(dls.train) whatever len(dls.valid) is
C28_TrainIterCountsTrainBatches ==
    /\ [][\A k \in NewEntries :
            /\ trace'[k].ev = "before_fit" => learn'.train_iter = 0
            /\ trace'[k].ev = "after_batch" =>
                  learn'.train_iter =
                     IF PhaseAt(k)' = "train" THEN learn.train_iter + 1
                     ELSE learn.train_iter
            /\ trace'[k].ev \notin {"before_fit", "after_batch"} =>
                  learn'.train_iter = learn.train_iter]_vars
    /\ []((status = "returned" /\ NoRaise(trace)) =>
             learn.train_iter = learn.n_epoch * dls.train)

\* a second fit on the same session has returned with nothing raised, over
\* loaders of different lengths: train_iter counts the training batches of
\* that fit alone
C28_Witness ==
    /\ status = "returned" /\ fits = MaxFits /\ NoRaise(trace)
    /\ learn.n_epoch = MaxEpochs
    /\ dls.train = MaxTrain /\ dls.valid = MaxValid /\ MaxTrain # MaxValid
    /\ Count(trace, "after_batch") = MaxEpochs * (MaxTrain + MaxValid)
    /\ learn.train_iter = MaxEpochs * MaxTrain


\* what _with_events logged: every name in the trace, and those that are
\* not an after_cancel event
Logged == [k \in 1..Len(trace) |-> trace[k].ev]
NotAfterCancel(ev) == \A x \in Scopes : ev # AfterCancelEv(x)

\* both wrappers have finished on the same scope, and no event handler
\* raised on the _with_events side
BothDone ==
    /\ status \in {"returned", "raised"}
    /\ mini.status \in {"returned", "raised"}
    /\ \A k \in 1..Len(trace) : trace[k].ev \notin Ops => trace[k].exc = "none"

\* how the wrapped body ended
BodyExc == IF Len(trace) > 1 THEN trace[2].exc ELSE "none"

\* how _with_events ended
Outcome == IF status = "returned" THEN "none" ELSE exc.kind

RecCalled(k) == "rec" \in Range(trace[k].called)

\* C30: Recorder's lrs and losses always have the same length; its
\* before_fit leaves both empty; its after_batch adds one entry to each in
\* a train phase when the batch has targets, and leaves both alone in a
\* validate phase or when the batch has no targets, in which case no metric
\* is accumulated either; no other step changes them
C30_LrsAndLosses ==
    /\ [](recorder.lrs = recorder.losses)
    /\ [][\A k \in NewEntries :
            /\ (trace'[k].ev = "before_fit" /\ RecCalled(k)') =>
                  (recorder'.lrs = 0 /\ recorder'.losses = 0)
            /\ (trace'[k].ev = "after_batch" /\ RecCalled(k)') =>
                  IF HasY /\ PhaseAt(k)' = "train"
                  THEN /\ recorder'.lrs = recorder.lrs + 1
                       /\ recorder'.losses = recorder.losses + 1
                  ELSE /\ recorder'.lrs = recorder.lrs
                       /\ recorder'.losses = recorder.losses
                       /\ ~HasY => recorder' = recorder
            /\ (trace'[k].ev \notin {"before_fit", "after_batch"}
                  \/ ~RecCalled(k)') =>
                  (/\ recorder'.lrs = recorder.lrs
                   /\ recorder'.losses = recorder.losses)]_vars

\* a second fit over batches with targets has returned with nothing raised:
\* lrs and losses hold one entry per training batch of that fit alone
C30_Witness ==
    /\ status = "returned" /\ fits = MaxFits /\ NoRaise(trace) /\ HasY
    /\ learn.n_epoch = MaxEpochs
    /\ dls.train = MaxTrain /\ dls.valid = MaxValid
    /\ recorder.lrs = MaxEpochs * MaxTrain
    /\ recorder.losses = MaxEpochs * MaxTrain

\* a fit over batches without targets has returned with nothing raised:
\* Recorder's after_batch ran on every batch and recorded nothing
C30_WitnessNoTargets ==
    /\ status = "returned" /\ NoRaise(trace) /\ ~HasY
    /\ learn.n_epoch = MaxEpochs /\ dls.train = MaxTrain
    /\ \A k \in 1..Len(trace) : trace[k].ev = "after_batch" => RecCalled(k)
    /\ recorder.lrs = 0 /\ recorder.losses = 0
    /\ recorder.nTrain = 0 /\ recorder.nValid = 0


\* sums over what was accumulated since the last reset
RECURSIVE SumBs(_)
SumBs(l) == IF l = <<>> THEN 0 ELSE Head(l).bs + SumBs(Tail(l))
RECURSIVE SumWeighted(_)
SumWeighted(l) ==
    IF l = <<>> THEN 0 ELSE Head(l).v * Head(l).bs + SumWeighted(Tail(l))

\* C31: once reset has been called, count is the sum of the batch sizes
\* accumulated since the last reset and total the sum of value times batch
\* size, so value is their quotient, the weighted mean; value is None
\* exactly when nothing has been accumulated since the last reset, and
\* right after a reset total and count are 0 whatever came before
C31_WeightedMean ==
    /\ [](metric.set =>
            /\ metric.count = SumBs(metric.log)
            /\ metric.total = SumWeighted(metric.log)
            /\ (MetricValue(metric) = <<>>) <=> (metric.log = <<>>)
            /\ metric.log # <<>> =>
                  MetricValue(metric) =
                     <<SumWeighted(metric.log), SumBs(metric.log)>>)
    /\ [][(metric'.set /\ metric'.log = <<>>) =>
             (metric'.total = 0 /\ metric'.count = 0
                /\ MetricValue(metric') = <<>>)]_vars

\* after a reset that discarded earlier batches, two batches of different
\* sizes and different values have been accumulated: the value is their
\* weighted mean and not the mean of the two values
C31_Witness ==
    /\ metric.set /\ metric.dropped /\ Len(metric.log) = 2
    /\ metric.log[1].bs # metric.log[2].bs
    /\ metric.log[1].v # metric.log[2].v
    /\ MetricValue(metric) # <<>>
    /\ MetricValue(metric)[1] * 2 #
          (metric.log[1].v + metric.log[2].v) * MetricValue(metric)[2]

\* the parameter after the first k step callbacks of the list l
RECURSIVE AfterCbs(_, _, _, _)
AfterCbs(k, q, l, h) ==
    IF k = 0 THEN q ELSE ApplyCb(l[k], AfterCbs(k - 1, q, l, h), h)

\* C32: Optimizer.step applies the step callbacks one after another in list
\* order to each parameter that has a gradient, each callback seeing the
\* state the ones before it left, and stores the final state; a parameter
\* without a gradient keeps its value and its state, and zero_grad changes
\* only parameters that have a gradient
C32_StepInListOrder ==
    [][/\ (optim.made /\ optim'.n = optim.n + 1
              /\ \A i \in 1..Len(optim'.params) : ~optim'.params[i].err) =>
            \A i \in 1..Len(optim.params) :
               LET q == optim.params[i]
                   r == optim'.params[i]
                   h == optim.hypers
                   old == IF q.state.grad_avg = <<>> THEN 0
                          ELSE q.state.grad_avg[1]
               IN /\ q.grad = <<>> => r = q
                  /\ q.grad # <<>> =>
                       /\ r = AfterCbs(Len(optim.cbs), q, optim.cbs, h)
                       /\ r.grad = q.grad
                       /\ optim.cbs = <<"weight_decay", "sgd_step">> =>
                            /\ r.data = q.data * (1 - h.lr * h.wd)
                                           - h.lr * q.grad[1]
                            /\ r.state = q.state
                       /\ optim.cbs = <<"sgd_step", "weight_decay">> =>
                            r.data = (q.data - h.lr * q.grad[1])
                                        * (1 - h.lr * h.wd)
                       /\ optim.cbs =
                             <<"weight_decay", "average_grad",
                               "momentum_step">> =>
                            /\ r.state.grad_avg = <<old * h.mom + q.grad[1]>>
                            /\ r.data = q.data * (1 - h.lr * h.wd)
                                  - h.lr * (old * h.mom + q.grad[1])
                       /\ optim.cbs = <<"momentum_step", "average_grad">> =>
                            /\ r.state.grad_avg = <<old * h.mom + q.grad[1]>>
                            /\ r.data = q.data - h.lr * old
       /\ (optim.made /\ optim'.last = "zero_grad"
               /\ optim.last # "zero_grad") =>
             \A i \in 1..Len(optim.params) :
                LET q == optim.params[i]
                    r == optim'.params[i]
                IN /\ q.grad = <<>> => r = q
                   /\ q.grad # <<>> => r = [q EXCEPT !.grad = <<0>>]]_vars

\* after two steps of weight_decay, average_grad, momentum_step: the first
\* parameter has had a gradient and carries the running average of two
\* steps, the second never had one and is as it was built
C32_Witness ==
    /\ optim.made /\ optim.last = "step" /\ optim.n = 2 /\ optim.nb = 2
    /\ optim.cbs = <<"weight_decay", "average_grad", "momentum_step">>
    /\ optim.hypers = [lr |-> 2, mom |-> 1, wd |-> 1]
    /\ optim.params[1].state.grad_avg = <<3>>
    /\ optim.params[1].data # 1
    /\ optim.params[2] = Param(2)

\* zero_grad was called while one parameter had a gradient and the other
\* had none
C32_WitnessZeroGrad ==
    /\ optim.made /\ optim.last = "zero_grad" /\ optim.n > 0
    /\ optim.params[1].grad = <<0>>
    /\ optim.params[2].grad = <<>>

\* C33: Composer's DecoupledSGDW and fastai's SGD with momentum (callbacks
\* weight_decay, average_grad, momentum_step), built with the same
\* parameter value, lr, momentum and weight decay (dampening 0, nesterov
\* off) and given the same gradients, have the same parameter value after
\* every step
C33_SameParameter ==
    (optim.made /\ sgdw.made /\ optim.cbs = SGDCbs(1)) =>
        optim.params[1].data = sgdw.param


\* C34: one call of adam_step with a non-zero gradient and a non-zero lr
\* leaves the caller's parameter at the weight-decayed and Adam-stepped
\* value, and returns the updated grad_avg and sqr_avg and a step count one
\* greater than the one it was given
C34_WholeUpdate ==
    (adam.called /\ adam.grad # 0 /\ adam.lr # 0) =>
        /\ adam.param = adam.local
        /\ adam.grad_avg = <<adam.grad>>
        /\ adam.sqr_avg = <<adam.grad * adam.grad>>
        /\ adam.step = adam.given + 1

\* entry k of the trace tr is a before_x dispatch that a callback ended by
\* raising the signal of x
CancelledAtBefore(tr, k, x) ==
    k >= 1 /\ k <= Len(tr) /\ tr[k].ev = BeforeEv(x) /\ tr[k].exc = x

\* the dispatch e went through the whole ordered list, and every callback
\* that was enabled (run flag r set, gate open) had its handler called
ReachedAllEnabled(e, r) ==
    /\ e.asked = SortedByOrder(cbs)
    /\ \A i \in 1..Len(e.asked) :
          (r[e.asked[i]] /\ GateSays(e.asked[i], e.ev, e.seen[i]))
              => e.asked[i] \in Range(e.called)

\* C35: when the callback at position k of the ordered list raises the
\* cancel signal of X during the before_X dispatch, the callbacks after
\* position k do not receive that before_X and the body of the phase is not
\* executed: the next dispatch is after_cancel_X and the one after it
\* after_X, and each of the two, when no handler raises in it, reaches
\* every enabled callback, those after position k included
C35_CancelAtBefore ==
    [][\A k \in NewEntries : \A x \in Scopes :
          /\ CancelledAtBefore(trace', k, x) =>
                LET n == Len(trace'[k].asked)
                IN /\ trace'[k].asked = SubSeq(SortedByOrder(cbs), 1, n)
                   /\ Last(trace'[k].called) = trace'[k].asked[n]
                   /\ \A j \in (n + 1)..Len(cbs) :
                         SortedByOrder(cbs)[j] \notin Range(trace'[k].asked)
                   /\ stack' # <<>> /\ Last(stack').scope = x
                   /\ Last(stack').pc = "cancel"
          /\ CancelledAtBefore(trace', k - 1, x) =>
                /\ trace'[k].ev = AfterCancelEv(x)
                /\ trace'[k].exc = "none" =>
                      ReachedAllEnabled(trace'[k], run)
          /\ (CancelledAtBefore(trace', k - 2, x)
                 /\ trace'[k - 1].exc = "none") =>
                /\ trace'[k].ev = AfterEv(x)
                /\ trace'[k].exc = "none" =>
                      ReachedAllEnabled(trace'[k], run)]_vars

\* before_batch was cut short by the user callback's CancelBatch: the
\* Recorder, ordered after it, did not get before_batch and got
\* after_cancel_batch and after_batch
C35_Witness ==
    \E k \in 1..Len(trace) :
        /\ CancelledAtBefore(trace, k, "batch")
        /\ Last(trace[k].called) = "usr"
        /\ "rec" \notin Range(trace[k].asked)
        /\ Has(k + 2)
        /\ trace[k + 1].ev = "after_cancel_batch"
        /\ "rec" \in Range(trace[k + 1].called)
        /\ trace[k + 2].ev = "after_batch" /\ Done(k + 2)
        /\ "rec" \in Range(trace[k + 2].called)

\* the instance of phase x that is open at entry k is never closed: every
\* after_x or after_cancel_x dispatched later belongs to an instance that
\* began after k
NeverClosed(x, k) ==
    \A m \in (k + 1)..Len(trace) :
        trace[m].ev \in {AfterEv(x), AfterCancelEv(x)} =>
            \E i \in (k + 1)..(m - 1) : trace[i].ev = BeforeEv(x)

\* C36: when the cancel signal of an outer phase Y (train, validate, epoch
\* or fit) is raised while Y and phases inside Y are open, after_cancel_Y
\* and then after_Y are the next dispatches, and no after or after_cancel
\* event is ever dispatched for the inner phases that were open
C36_ClosedFromMatchingScope ==
    \A k \in 1..Len(trace) : \A y \in OuterScopes :
        (trace[k].exc = y /\ OpenAt(y, k)) =>
            /\ Has(k + 1) => trace[k + 1].ev = AfterCancelEv(y)
            /\ (Done(k + 1) /\ Has(k + 2)) => trace[k + 2].ev = AfterEv(y)
            /\ \A x \in Scopes :
                  (y \in Encl(x) /\ OpenAt(x, k)) => NeverClosed(x, k)

\* a CancelEpoch raised in the after_loss dispatch of a training batch: the
\* fit has returned, after_cancel_epoch and after_epoch followed, and one
\* batch and one training phase were left without their after events
C36_Witness ==
    /\ status = "returned"
    /\ \E k \in 1..Len(trace) :
          /\ trace[k].ev = "after_loss" /\ trace[k].exc = "epoch"
          /\ OpenAt("batch", k) /\ OpenAt("train", k) /\ OpenAt("epoch", k)
          /\ trace[k + 1].ev = "after_cancel_epoch"
          /\ trace[k + 2].ev = "after_epoch"
    /\ Count(trace, "after_batch") < Count(trace, "before_batch")
    /\ Count(trace, "after_train") < Count(trace, "before_train")
    /\ Count(trace, "after_epoch") = Count(trace, "before_epoch")
    /\ Count(trace, "after_cancel_batch") = 0
    /\ Count(trace, "after_cancel_train") = 0

\* the events of a training batch from which a CancelBatch leaves the
\* batch body after the loss and before zero_grad, and those of them that
\* come before the optimizer step
AfterLossPoints ==
    {"before_backward", "after_backward", "before_step", "after_step"}
BeforeStepPoints == {"before_backward", "after_backward", "before_step"}

\* entry k is the before_batch of the batch that entry j belongs to
BatchStart(j) ==
    CHOOSE k \in 1..j :
        /\ trace[k].ev = "before_batch"
        /\ \A i \in (k + 1)..j : trace[i].ev # "before_batch"

\* C37: zero_grad is called only right after a completed after_step
\* dispatch, and only it clears the gradients. A CancelBatch raised by a
\* handler of before_backward, after_backward, before_step or after_step is
\* followed by after_cancel_batch and after_batch; the batch has no
\* zero_grad and, when the raise came before the step scope, no optimizer
\* step; the gradients its backward pass computed are there when the next
\* batch starts
C37_ZeroGradAtEndOnly ==
    /\ [](\A k \in 1..Len(trace) :
            /\ trace[k].ev = "zero_grad" =>
                  (k > 1 /\ trace[k - 1].ev = "after_step"
                     /\ trace[k - 1].exc = "none")
            /\ (trace[k].ev \in AfterLossPoints /\ trace[k].exc = "batch") =>
                  /\ Has(k + 1) => trace[k + 1].ev = "after_cancel_batch"
                  /\ (Done(k + 1) /\ Has(k + 2)) =>
                        trace[k + 2].ev = "after_batch"
                  /\ \A i \in BatchStart(k)..k :
                        /\ trace[i].ev # "zero_grad"
                        /\ trace[k].ev \in BeforeStepPoints =>
                              trace[i].ev # "opt_step"
                  /\ (Has(k + 3) /\ k + 3 = Len(trace)
                        /\ trace[k + 3].ev = "before_batch"
                        /\ \E i \in BatchStart(k)..k :
                              trace[i].ev = "backward" /\ Done(i)) =>
                        learn.grads)
    /\ [][(learn.grads /\ ~learn'.grads) =>
             (Last(trace').ev = "zero_grad" /\ Last(trace').exc = "none")]_vars

\* the user callback raised CancelBatch from after_backward in the first
\* batch; the second batch has started and the gradients of the first are
\* still there, no step having been taken
C37_Witness ==
    /\ Len(trace) > 3
    /\ Last(trace).ev = "before_batch"
    /\ trace[Len(trace) - 1].ev = "after_batch"
    /\ trace[Len(trace) - 2].ev = "after_cancel_batch"
    /\ trace[Len(trace) - 3].ev = "after_backward"
    /\ trace[Len(trace) - 3].exc = "batch"
    /\ learn.grads /\ learn.steps = 0
    /\ Count(trace, "zero_grad") = 0
    /\ Count(trace, "before_batch") = 2

\* a CancelBatch from after_step: the step was taken, zero_grad was not
C37_WitnessAfterStep ==
    /\ Len(trace) > 3
    /\ Last(trace).ev = "before_batch"
    /\ trace[Len(trace) - 3].ev = "after_step"
    /\ trace[Len(trace) - 3].exc = "batch"
    /\ learn.grads /\ learn.steps = 1
    /\ Count(trace, "zero_grad") = 0

MiniCount(ev) ==
    Cardinality({k \in 1..Len(mloop.events) : mloop.events[k].ev = ev})
MiniEnded == mloop.status \in {"returned", "raised"}

\* C38: in a MiniAI fit that has ended, no callback having raised
\* CancelFit or an error, before_epoch and after_epoch were each dispatched
\* 2 * n_epochs times; a CancelEpoch raised in the training pass of an
\* epoch index is followed by the validation pass of that index; and
\* backward, step and zero_grad are dispatched in training passes only
C38_TwoPassesPerEpoch ==
    /\ (MiniEnded /\ \A k \in 1..Len(mloop.events) :
                        mloop.events[k].exc \notin {"fit", "error"}) =>
          /\ MiniCount("before_epoch") = 2 * mloop.n_epochs
          /\ MiniCount("after_epoch") = 2 * mloop.n_epochs
    /\ MiniEnded =>
          \A k \in 1..Len(mloop.events) :
              (mloop.events[k].exc = "epoch" /\ mloop.events[k].train) =>
                  \E j \in (k + 1)..Len(mloop.events) :
                      /\ mloop.events[j].ev = "before_epoch"
                      /\ ~mloop.events[j].train
                      /\ mloop.events[j].epoch = mloop.events[k].epoch
    /\ \A k \in 1..Len(mloop.events) :
          mloop.events[k].ev \in {"backward", "step", "zero_grad"} =>
              mloop.events[k].train

\* the callbacks of the list that carry the name n, in list order
Named(s, n) == SelectSeq(s, LAMBDA c : NameOf(c) = n)

\* C39 as stated: every callback in the list is the value of the session
\* attribute named after it, and every callback-named attribute that is set
\* holds a callback of the list
C39_ListAndAttributesAgree ==
    /\ \A c \in Range(cbs) : attrs[NameOf(c)] = c
    /\ \A n \in Names : attrs[n] # "none" => attrs[n] \in Range(cbs)

\* C39 amended: a callback-named attribute that is set holds a callback of
\* the list, namely the last one of that name in the list; add sets the
\* attribute of the added callback's name to it, a removal that takes an
\* entry of some name out of the list leaves the attribute of that name
\* deleted, and an attribute changes in no other way than by being set to
\* the callback just appended or by being deleted. So a callback of the
\* list is the value of its attribute only while no callback of its name
\* was added or removed after it
C39_AttributeIsLastAdded ==
    /\ [](\A n \in Names :
            attrs[n] # "none" =>
               /\ Named(cbs, n) # <<>>
               /\ attrs[n] = Last(Named(cbs, n)))
    /\ [][/\ Len(cbs') > Len(cbs) =>
                attrs'[NameOf(Last(cbs'))] = Last(cbs')
          /\ \A n \in Names :
                /\ Len(Named(cbs', n)) < Len(Named(cbs, n)) =>
                      attrs'[n] = "none"
                /\ attrs'[n] # attrs[n] =>
                      \/ attrs'[n] = "none" /\ Len(cbs') <= Len(cbs)
                      \/ cbs' = Append(cbs, attrs'[n])]_vars

\* two callbacks of one name are registered and the attribute holds the
\* second; the first is in the list and is not reachable by its name
C39_Witness ==
    /\ cbs = <<"usr", "off">>
    /\ attrs["user"] = "off"
    /\ attrs["train_eval"] = "none"

\* one of two same-named callbacks was removed: the other is still in the
\* list, attached to the session, and the attribute of its name is gone
C39_WitnessRemoved ==
    /\ cbs = <<"usr">>
    /\ cblearn["usr"] = "learner"
    /\ attrs["user"] = "none"

====
